---- MODULE Spec2Model ----
(***************************************************************************)
(* A model of the Dailymotion upload bot (src/main.py, src/health.py).     *)
(*                                                                         *)
(* The specifications of the module:                                       *)
(*   SpecUploader  one DailymotionUploader object: __init__, authenticate, *)
(*                 get_upload_url, upload_file_to_url, create_video and    *)
(*                 upload_video, against every answer of the provider;     *)
(*                 SpecUploaderLive adds that every request ends.          *)
(*   Spec          the bot's handlers over user_states and the channels    *)
(*                 table, interleaved at their suspension points;          *)
(*                 SpecInfo adds the commands that only report, SpecTwo    *)
(*                 has two users, SpecRuns two suspended handlers.         *)
(*   SpecDb        get_db_connection.                                      *)
(*   SpecTitle     the title and description of an upload.                 *)
(*   SpecProgress  the two progress callbacks.                             *)
(*   SpecHealth    HealthCheckHandler.do_GET.                              *)
(* Python's None is the string "None"; a dictionary is a function on the   *)
(* keys it holds.                                                          *)
(***************************************************************************)
EXTENDS Integers, Sequences, FiniteSets, TLC

VARIABLES
    \* ---- DailymotionUploader (SpecUploader) ----
    access_token,   \* self.access_token
    refresh_token,  \* self.refresh_token
    session,        \* self.session: "None", "open" or "closed"
    call,           \* the top-level operation running on the uploader
    upc,            \* the position inside that operation
    attempt,        \* authenticate's loop variable
    caller,         \* who awaits authenticate: "top" or "upload_video"
    net,            \* network requests and sleeps of the running operation
    auth_ret,       \* what the last authenticate() returned
    ret,            \* what the top-level operation returned
    tok0,           \* <<access_token, refresh_token>> when authenticate began
    file_path,      \* the file at the path upload_video was given
    validation,     \* what validate_video_file returned for it
    progress,       \* what upload_video has passed to progress_callback
    \* ---- the bot (Spec) ----
    user_states,    \* the dictionary user_states: user id -> state
    channels,       \* the rows of the table channels
    next_id,        \* the next value of the SERIAL column id
    clock,          \* CURRENT_TIMESTAMP of the last INSERT, in ticks
    tasks,          \* the handlers suspended at an await
    returned,       \* the handler that has just ended, and how
    \* ---- get_db_connection (SpecDb) ----
    db_attempt,     \* get_db_connection's loop variable, -1 outside a call
    db_log,         \* per call, the connects and sleeps it has made
    db_ret,         \* per call that ended, what it returned
    \* ---- the title and description of an upload (SpecTitle) ----
    naming,         \* file name, title, description and request fields
    \* ---- the progress callbacks (SpecProgress) ----
    throttle,       \* the function attributes last_update and last_percent,
                    \* the loop's time, and per run the ticks it handled
    \* ---- the health endpoint (SpecHealth, src/health.py) ----
    served          \* the GET requests answered so far

uvars == <<access_token, refresh_token, session, call, upc, attempt, caller,
           net, auth_ret, ret, tok0, file_path, validation, progress>>

bvars == <<user_states, channels, next_id, clock, tasks, returned>>

dvars == <<db_attempt, db_log, db_ret>>

vars == <<access_token, refresh_token, session, call, upc, attempt, caller,
          net, auth_ret, ret, tok0, file_path, validation, progress,
          user_states, channels, next_id, clock, tasks, returned,
          db_attempt, db_log, db_ret, naming, throttle, served>>

None == "None"

\* Python's True and False where a variable may also hold None.
Bool(b) == IF b THEN "True" ELSE "False"

\* ------------------------------------------------------------------------
\* The provider's answers
\* ------------------------------------------------------------------------

AccessTokens == {"t1", "t2"}
RefreshTokens == {"r1"}
FailStatuses == {400, 401, 403, 500}

\* An answer to the token request: an HTTP response with a status and a
\* body, a timeout, or a transport error.  The body of a 200 is a JSON
\* object ("json", with its access_token and refresh_token members, None
\* when absent), text that is no JSON ("badjson": json.JSONDecodeError) or
\* a body response.json() refuses otherwise ("nonjson": another exception).
Resp(kind, status, body, access, refresh) ==
    [kind |-> kind, status |-> status, body |-> body,
     access |-> access, refresh |-> refresh]

TokenResponses ==
    { Resp("http", 200, "json", a, r) :
          a \in AccessTokens \cup {None}, r \in RefreshTokens \cup {None} }
    \cup { Resp("http", 200, b, None, None) : b \in {"badjson", "nonjson"} }
    \cup { Resp("http", s, "text", None, None) : s \in FailStatuses }
    \cup { Resp("timeout", 0, "none", None, None),
           Resp("error", 0, "none", None, None) }

\* An answer to the slot request, the file POST or the registration: the
\* member the code reads (upload_url, url, id) is in "access" when present.
StageResponses ==
    { Resp("http", 200, "json", v, None) : v \in {"value", None} }
    \cup { Resp("http", s, "text", None, None) : s \in FailStatuses }
    \cup { Resp("error", 0, "none", None, None) }

\* An entry of net: a request with the answer it got, or a sleep.
Request(req, resp) == [req |-> req, resp |-> resp, delay |-> 0]
Sleep(d) == [req |-> "sleep", resp |-> Resp("none", 0, "none", None, None),
             delay |-> d]

\* A size in bytes: gib * 2^30 + rest, with rest < 2^30.
Size(gib, rest) == [gib |-> gib, rest |-> rest]

RECURSIVE Pow2(_)
Pow2(n) == IF n = 0 THEN 1 ELSE 2 * Pow2(n - 1)

\* ------------------------------------------------------------------------
\* validate_video_file
\* ------------------------------------------------------------------------

\* A path on the local disk: whether a file is there, its size, and the
\* extension of its name as written.
Path(there, size, ext) == [there |-> there, size |-> size, ext |-> ext]

NoPath == Path(FALSE, Size(0, 0), "")

\* The paths upload_video is given.
LocalFiles ==
    { Path(FALSE, Size(0, 0), ".mp4"),
      Path(TRUE, Size(0, 0), ".mp4"),
      Path(TRUE, Size(0, 1000), ".mp4"),
      Path(TRUE, Size(4, 0), ".mp4"),
      Path(TRUE, Size(4, 1), ".mp4"),
      Path(TRUE, Size(0, 1000), ".MP4"),
      Path(TRUE, Size(0, 1000), ".mkv"),
      Path(TRUE, Size(0, 1000), ".3gp"),
      Path(TRUE, Size(0, 1000), ".mpg"),
      Path(TRUE, Size(0, 1000), ".txt"),
      Path(TRUE, Size(0, 1000), "") }

\* str.lower() of the extensions above.
lower(ext) == IF ext = ".MP4" THEN ".mp4" ELSE ext

\* mimetypes.guess_type of a path with that extension (line 111), by the
\* table of the standard library: it looks the extension up as written,
\* then in lower case; None where the table has no entry.
guess_type(ext) ==
    CASE lower(ext) = ".mp4" -> "video/mp4"
      [] lower(ext) = ".mpg" -> "video/mpeg"
      [] lower(ext) = ".3gp" -> "audio/3gpp"
      [] lower(ext) = ".txt" -> "text/plain"
      [] OTHER -> None

\* mime_type.startswith('video/') of the types above.
StartsWithVideo(mime) == mime \in {"video/mp4", "video/mpeg"}

valid_extensions ==
    {".mp4", ".avi", ".mov", ".mkv", ".wmv", ".flv", ".webm", ".m4v", ".3gp"}

\* file_size > 4 * 1024 * 1024 * 1024 (line 102).
ExceedsLimit(size) == size.gib > 4 \/ (size.gib = 4 /\ size.rest > 0)

\* validate_video_file (lines 91-118): the pair it returns.
validate_video_file(f) ==
    IF ~f.there THEN <<FALSE, "File does not exist">>
    ELSE IF f.size = Size(0, 0) THEN <<FALSE, "File is empty">>
    ELSE IF ExceedsLimit(f.size) THEN <<FALSE, "File too large">>
    ELSE IF lower(f.ext) \notin valid_extensions
         THEN <<FALSE, "Unsupported format">>
    ELSE IF guess_type(f.ext) # None /\ ~StartsWithVideo(guess_type(f.ext))
         THEN <<FALSE, "Invalid MIME type">>
    ELSE <<TRUE, "Valid">>

\* ------------------------------------------------------------------------
\* DailymotionUploader
\* ------------------------------------------------------------------------

max_retries == 3

\* get_session: a session is created when there is none or it was closed.
get_session(s) == IF s = None \/ s = "closed" THEN "open" ELSE s

\* close_session: closes a session that exists and is open.
close_session(s) == IF s # None /\ s # "closed" THEN "closed" ELSE s

\* The token request succeeded: status 200, a JSON object, a truthy
\* access_token (lines 177-185).
AuthSucceeds(r) ==
    r.kind = "http" /\ r.status = 200 /\ r.body = "json" /\ r.access # None

\* The tokens after one answer: a 200 with a JSON object assigns both
\* members, present or not (lines 179-181); nothing else assigns.
TokensAfter(r, acc, ref) ==
    IF r.kind = "http" /\ r.status = 200 /\ r.body = "json"
    THEN <<r.access, r.refresh>>
    ELSE <<acc, ref>>

\* Whether a failed attempt reaches an asyncio.sleep: the non-200 branch
\* (line 215) and the two except clauses (lines 220, 224) hold one, the 200
\* branch without a token and the JSONDecodeError clause (lines 186-191)
\* hold none.
SleepsAfter(r) ==
    \/ r.kind = "http" /\ r.status # 200
    \/ r.kind = "timeout"
    \/ r.kind = "error"
    \/ r.kind = "http" /\ r.status = 200 /\ r.body = "nonjson"

LoopEndsWithoutReturn(ok, att) == att + 1 >= max_retries

LoopEndsOnSuccessOnly(ok, att) == ok

\* authenticate's loop is left after the attempt numbered att: by the
\* return True of a successful attempt (line 185) or because the range is
\* exhausted (lines 156, 227).
LoopEnds(ok, att) == ok \/ att + 1 >= max_retries

\* The entries one attempt adds to net.
AttemptEvents(r, att) ==
    IF ~AuthSucceeds(r) /\ SleepsAfter(r) /\ att < max_retries - 1
    THEN <<Request("token", r), Sleep(Pow2(att))>>
    ELSE <<Request("token", r)>>

UInit ==
    /\ access_token = None
    /\ refresh_token = None
    /\ session = None
    /\ call = "none"
    /\ upc = "idle"
    /\ attempt = 0
    /\ caller = "top"
    /\ net = <<>>
    /\ auth_ret = None
    /\ ret = None
    /\ tok0 = <<None, None>>
    /\ file_path = NoPath
    /\ validation = <<None, None>>
    /\ progress = <<>>

\* get_upload_url's value for an answer (lines 242-261): the upload_url
\* member of a 200's JSON object; None for a 200 without it, for a 401, for
\* any other status and for an exception.
get_upload_url_result(r) ==
    IF r.kind = "http" /\ r.status = 200
    THEN IF r.access # None THEN r.access ELSE None
    ELSE IF r.kind = "http" /\ r.status = 401 THEN None
    ELSE None

\* upload_file_to_url's value for an answer (lines 293-311): the url member
\* of a 200's JSON object; None otherwise.
upload_file_to_url_result(r) ==
    IF r.kind = "http" /\ r.status = 200
    THEN IF r.access # None THEN r.access ELSE None
    ELSE None

\* create_video's value for an answer (lines 335-357): the id member of a
\* 200's JSON object; None for a 200 without it, for a 401, for any other
\* status and for an exception.
create_video_result(r) ==
    IF r.kind = "http" /\ r.status = 200
    THEN IF r.access # None THEN r.access ELSE None
    ELSE IF r.kind = "http" /\ r.status = 401 THEN None
    ELSE None

VideoUrl(video_id) == "https://www.dailymotion.com/video/" \o video_id

FileStagePercentUnscaled(p) == 20 + p

\* What the file stage passes on for its own percentage p: 20 + p * 0.6
\* (line 392).  The values of p are multiples of ten, so the product is a
\* whole number.
FileStagePercent(p) == 20 + (p * 6) \div 10

\* What the registration passes on for its own percentage p: 85 + p * 0.15
\* (line 402).
VideoStagePercent(p) == 85 + (p * 15) \div 100

\* The percentages upload_file_to_url reports before the POST (lines 270,
\* 278, 290) and after a 200 with a url (line 299).
FileStageTicks(ok) ==
    IF ok THEN <<FileStagePercent(10), FileStagePercent(30),
                 FileStagePercent(50), FileStagePercent(80)>>
    ELSE <<FileStagePercent(10), FileStagePercent(30), FileStagePercent(50)>>

StageAfterIgnoringFailure(stage, ok) ==
    CASE stage = "auth" -> "slot"
      [] stage = "slot" -> "file"
      [] stage = "file" -> "video"
      [] stage = "video" -> "done"

\* upload_video's sequencing: the position that follows a stage, given
\* whether the stage handed back a value (lines 374-376, 383-385, 393-395,
\* 404-409).
StageAfter(stage, ok) ==
    IF ~ok THEN "done"
    ELSE CASE stage = "auth" -> "slot"
           [] stage = "slot" -> "file"
           [] stage = "file" -> "video"
           [] stage = "video" -> "done"

\* authenticate() is entered: the loop starts at attempt 0.
EnterAuthenticate(who) ==
    /\ upc' = "auth"
    /\ caller' = who
    /\ attempt' = 0
    /\ tok0' = <<access_token, refresh_token>>
    /\ auth_ret' = None

\* A handler calls authenticate() on a new uploader (lines 575, 923).
authenticate_start ==
    /\ call = "none"
    /\ call' = "authenticate"
    /\ EnterAuthenticate("top")
    /\ net' = <<>>
    /\ UNCHANGED <<access_token, refresh_token, session, ret>>
    /\ UNCHANGED <<file_path, validation, progress>>
    /\ UNCHANGED bvars
    /\ UNCHANGED dvars
    /\ UNCHANGED naming
    /\ UNCHANGED throttle
    /\ UNCHANGED served

\* One pass of authenticate's loop: the token request, its answer, the
\* sleep that follows a failure, and the return when the loop ends.
authenticate_attempt ==
    /\ upc = "auth"
    /\ \E r \in TokenResponses :
         LET toks == TokensAfter(r, access_token, refresh_token)
             ok == AuthSucceeds(r)
             returns == LoopEnds(ok, attempt)
             opened == get_session(session)
         IN  /\ access_token' = toks[1]
             /\ refresh_token' = toks[2]
             /\ net' = net \o AttemptEvents(r, attempt)
             /\ progress' = IF returns /\ ok /\ caller = "upload_video"
                             THEN Append(progress, 15) ELSE progress
             /\ IF ~returns
                THEN /\ attempt' = attempt + 1
                     /\ session' = opened
                     /\ UNCHANGED <<upc, auth_ret, ret>>
                ELSE /\ attempt' = attempt
                     /\ auth_ret' = Bool(ok)
                     /\ IF caller = "top"
                        THEN /\ upc' = "done"
                             /\ ret' = Bool(ok)
                             /\ session' = opened
                        ELSE /\ upc' = StageAfter("auth", ok)
                             /\ ret' = None
                             /\ session' = IF ok THEN opened
                                           ELSE close_session(opened)
    /\ UNCHANGED <<call, caller, tok0>>
    /\ UNCHANGED <<file_path, validation>>
    /\ UNCHANGED bvars
    /\ UNCHANGED dvars
    /\ UNCHANGED naming
    /\ UNCHANGED throttle
    /\ UNCHANGED served

ValidationNeverEnds(is_valid) == FALSE

\* upload_video returns None when the file is not valid (lines 364-367).
ValidationEnds(is_valid) == ~is_valid

\* upload_video is called on a new uploader (line 1229): the file is
\* validated, and authenticate() is entered when no token is held.
upload_video_start ==
    /\ call = "none"
    /\ call' = "upload_video"
    /\ net' = <<>>
    /\ \E f \in LocalFiles :
         /\ file_path' = f
         /\ validation' = <<Bool(validate_video_file(f)[1]),
                            validate_video_file(f)[2]>>
         /\ IF ValidationEnds(validate_video_file(f)[1])
            THEN /\ upc' = "done"
                 /\ ret' = None
                 /\ session' = close_session(session)
                 /\ progress' = <<>>
                 /\ UNCHANGED <<caller, attempt, tok0, auth_ret>>
            ELSE IF access_token = None
                 THEN /\ EnterAuthenticate("upload_video")
                      /\ progress' = <<5>>
                      /\ UNCHANGED <<session, ret>>
                 ELSE /\ upc' = "slot"
                      /\ progress' = <<5, 15>>
                      /\ UNCHANGED <<caller, attempt, tok0, auth_ret,
                                     session, ret>>
    /\ UNCHANGED <<access_token, refresh_token>>
    /\ UNCHANGED bvars
    /\ UNCHANGED dvars
    /\ UNCHANGED naming
    /\ UNCHANGED throttle
    /\ UNCHANGED served

\* upload_video goes on after a stage handed back `value`: the next
\* position, the value returned when it ends there, and the finally clause
\* (line 416) closing the session when it ends.
UploadVideoGoesOn(stage, value, opened) ==
    LET next == StageAfter(stage, value # None)
    IN  /\ upc' = next
        /\ ret' = IF stage = "video" /\ value # None
                  THEN VideoUrl(value) ELSE None
        /\ session' = IF next = "done" THEN close_session(opened) ELSE opened

\* get_upload_url (lines 229-261) and upload_video's check of its value:
\* without a token no request is made.
get_upload_url ==
    /\ upc = "slot"
    /\ IF access_token = None
       THEN /\ UploadVideoGoesOn("slot", None, session)
            /\ net' = net
            /\ UNCHANGED progress
       ELSE \E r \in StageResponses :
              /\ net' = Append(net, Request("slot", r))
              /\ progress' = IF get_upload_url_result(r) # None
                             THEN Append(progress, 20) ELSE progress
              /\ UploadVideoGoesOn("slot", get_upload_url_result(r),
                                   get_session(session))
    /\ UNCHANGED <<access_token, refresh_token, call, attempt, caller,
                   auth_ret, tok0>>
    /\ UNCHANGED <<file_path, validation>>
    /\ UNCHANGED bvars
    /\ UNCHANGED dvars
    /\ UNCHANGED naming
    /\ UNCHANGED throttle
    /\ UNCHANGED served

\* upload_file_to_url (lines 263-311) and upload_video's check of its value.
upload_file_to_url ==
    /\ upc = "file"
    /\ \E r \in StageResponses :
         /\ net' = Append(net, Request("file", r))
         /\ progress' =
              IF upload_file_to_url_result(r) # None
              THEN Append(progress \o FileStageTicks(TRUE), 85)
              ELSE progress \o FileStageTicks(FALSE)
         /\ UploadVideoGoesOn("file", upload_file_to_url_result(r),
                              get_session(session))
    /\ UNCHANGED <<access_token, refresh_token, call, attempt, caller,
                   auth_ret, tok0>>
    /\ UNCHANGED <<file_path, validation>>
    /\ UNCHANGED bvars
    /\ UNCHANGED dvars
    /\ UNCHANGED naming
    /\ UNCHANGED throttle
    /\ UNCHANGED served

\* create_video (lines 313-357) and upload_video's check of its value:
\* without a token no request is made.
create_video ==
    /\ upc = "video"
    /\ IF access_token = None
       THEN /\ UploadVideoGoesOn("video", None, session)
            /\ net' = net
            /\ UNCHANGED progress
       ELSE \E r \in StageResponses :
              /\ net' = Append(net, Request("video", r))
              /\ progress' = IF create_video_result(r) # None
                             THEN Append(progress, VideoStagePercent(100))
                             ELSE progress
              /\ UploadVideoGoesOn("video", create_video_result(r),
                                   get_session(session))
    /\ UNCHANGED <<access_token, refresh_token, call, attempt, caller,
                   auth_ret, tok0>>
    /\ UNCHANGED <<file_path, validation>>
    /\ UNCHANGED bvars
    /\ UNCHANGED dvars
    /\ UNCHANGED naming
    /\ UNCHANGED throttle
    /\ UNCHANGED served

\* get_upload_error_details: after upload_video returned None the same
\* uploader authenticates again (lines 1267, 429).
get_upload_error_details ==
    /\ call = "upload_video"
    /\ upc = "done"
    /\ ret = None
    /\ call' = "diagnostic"
    /\ EnterAuthenticate("top")
    /\ net' = <<>>
    /\ UNCHANGED <<access_token, refresh_token, session, ret>>
    /\ UNCHANGED <<file_path, validation, progress>>
    /\ UNCHANGED bvars
    /\ UNCHANGED dvars
    /\ UNCHANGED naming
    /\ UNCHANGED throttle
    /\ UNCHANGED served

\* The handler is done with the uploader; the next one builds a new one
\* (__init__, lines 121-130).
new_uploader ==
    /\ upc = "done"
    /\ access_token' = None
    /\ refresh_token' = None
    /\ session' = None
    /\ call' = "none"
    /\ upc' = "idle"
    /\ attempt' = 0
    /\ caller' = "top"
    /\ net' = <<>>
    /\ auth_ret' = None
    /\ ret' = None
    /\ tok0' = <<None, None>>
    /\ file_path' = NoPath
    /\ validation' = <<None, None>>
    /\ progress' = <<>>
    /\ UNCHANGED bvars
    /\ UNCHANGED dvars
    /\ UNCHANGED naming
    /\ UNCHANGED throttle
    /\ UNCHANGED served

UNext ==
    \/ authenticate_start
    \/ authenticate_attempt
    \/ upload_video_start
    \/ get_upload_url
    \/ upload_file_to_url
    \/ create_video
    \/ get_upload_error_details
    \/ new_uploader


\* ------------------------------------------------------------------------
\* The bot: user_states, the channels table and the handlers
\* ------------------------------------------------------------------------

\* The user ids messages and callbacks come from.
Users == {1}

\* At most MaxTasks handlers are suspended at once, and the SERIAL column
\* hands out the ids 1..MaxId.
MaxTasks == 1
MaxId == 2

\* A text message: a body with whitespace around it (pad > 0) or not.
Text(body, pad) == [body |-> body, pad |-> pad]

\* message.text.strip(): the body without the whitespace around it.
strip(t) == t.body

\* len() of the strings the users send.
len(s) ==
    CASE s = "" -> 0
      [] s = "a" -> 1
      [] s = "name50" -> 50
      [] s = "name51" -> 51
      [] s = "key9" -> 9
      [] s = "key10" -> 10
      [] s = "u" -> 1
      [] s = "p" -> 1
      [] s = "q" -> 1

WizardSteps == {"channel_name", "api_key", "api_secret", "username", "password"}

\* What a user sends at a step of the wizard: values the step accepts and
\* values it rejects.
BodiesAt(step) ==
    CASE step = "channel_name" -> {"", "a", "name50", "name51"}
      [] step \in {"api_key", "api_secret"} -> {"key9", "key10"}
      [] step = "username" -> {"", "u"}
      [] step = "password" -> {"", "p", "q"}
      [] OTHER -> {"a"}

TextsAt(step) == { Text(b, pad) : b \in BodiesAt(step), pad \in {0, 1} }

AcceptsBelowFifty(step, s) ==
    CASE step = "channel_name" -> ~(len(s) < 1 \/ len(s) >= 50)
      [] step \in {"api_key", "api_secret"} -> ~(len(s) < 10)
      [] step \in {"username", "password"} -> ~(len(s) < 1)

AcceptsAnything(step, s) == TRUE

\* The check each step makes of the stripped text (lines 845, 859, 872,
\* 885, 899).
Accepts(step, s) ==
    CASE step = "channel_name" -> ~(len(s) < 1 \/ len(s) > 50)
      [] step = "api_key" -> ~(len(s) < 10)
      [] step = "api_secret" -> ~(len(s) < 10)
      [] step = "username" -> ~(len(s) < 1)
      [] step = "password" -> ~(len(s) < 1)

NextStepSkipping(step) ==
    CASE step = "channel_name" -> "api_secret"
      [] step = "api_key" -> "api_secret"
      [] step = "api_secret" -> "username"
      [] step = "username" -> "password"

\* The step a step hands over to (lines 850, 864, 877, 890).
NextStep(step) ==
    CASE step = "channel_name" -> "api_key"
      [] step = "api_key" -> "api_secret"
      [] step = "api_secret" -> "username"
      [] step = "username" -> "password"

\* state["data"]: a dictionary, here a function on the keys it holds.
EmptyData == [f \in {} |-> None]

SetItemKeepingOld(d, key, value) ==
    [k \in DOMAIN d \cup {key} |->
       IF k \in DOMAIN d THEN d[k] ELSE value]

SetItem(d, key, value) ==
    [k \in DOMAIN d \cup {key} |-> IF k = key THEN value ELSE d[k]]

DelItemOfAll(d, key) == [k \in {} |-> None]

\* del user_states[user_id]
DelItem(d, key) == [k \in DOMAIN d \ {key} |-> d[k]]

\* A row of channels (lines 64-77); created_at and the unused columns are
\* left out.
Row(id, user_id, data, token, created_at) ==
    [id |-> id, user_id |-> user_id, channel_name |-> data["channel_name"],
     api_key |-> data["api_key"], api_secret |-> data["api_secret"],
     username |-> data["username"], password |-> data["password"],
     access_token |-> token, created_at |-> created_at]

NoRow ==
    [id |-> 0, user_id |-> 0, channel_name |-> None, api_key |-> None,
     api_secret |-> None, username |-> None, password |-> None,
     access_token |-> None, created_at |-> 0]

InsertWithoutUnique(table, row) ==
    [error |-> None, table |-> table \cup {row}]

\* INSERT INTO channels under UNIQUE(user_id, channel_name) (line 76): a
\* row with the same pair makes the statement fail with IntegrityError and
\* leaves the table as it was.
Insert(table, row) ==
    IF \E r \in table :
         r.user_id = row.user_id /\ r.channel_name = row.channel_name
    THEN [error |-> "IntegrityError", table |-> table]
    ELSE [error |-> None, table |-> table \cup {row}]

AnyUserWhere(table, user_id) == table

\* WHERE user_id = %s (lines 699, 746, 794, 1056).
WhereUser(table, user_id) == { r \in table : r.user_id = user_id }

AnyOwnerWhere(table, channel_id, user_id) ==
    { r \in table : r.id = channel_id }

AnyIdWhere(table, channel_id, user_id) ==
    { r \in table : r.user_id = user_id }

\* WHERE id = %s AND user_id = %s (lines 1147, 1364, 1373).
WhereIdAndUser(table, channel_id, user_id) ==
    { r \in table : r.id = channel_id /\ r.user_id = user_id }

\* The columns channel_name, username, created_at of a row (line 699).
Listed(r) ==
    [channel_name |-> r.channel_name, username |-> r.username,
     created_at |-> r.created_at]

\* The sequences that hold each row of `rows` once.
Orderings(rows) ==
    { q \in [1..Cardinality(rows) -> rows] :
        \A i, j \in 1..Cardinality(rows) : i # j => q[i] # q[j] }

OrderByCreatedAtAsc(rows) ==
    { q \in Orderings(rows) :
        \A i, j \in 1..Len(q) :
           i < j => q[i].created_at <= q[j].created_at }

\* ORDER BY created_at DESC (line 699): the orders in which the database
\* may return the rows; rows of equal created_at come in any order.
OrderByCreatedAtDesc(rows) ==
    { q \in Orderings(rows) :
        \A i, j \in 1..Len(q) :
           i < j => q[i].created_at >= q[j].created_at }

\* A suspended handler.  data is the dictionary state["data"] the handler's
\* local `state` refers to, which is the user's entry itself as long as
\* aliased holds; cred is what the uploader was built with (lines 916-921).
Idle ==
    [kind |-> "idle", user |-> 0, pc |-> "idle", data |-> EmptyData,
     aliased |-> FALSE, cred |-> EmptyData, inserted |-> FALSE,
     row |-> NoRow, channel |-> NoRow, file_name |-> None, tmp |-> "none"]

FreeSlots == { k \in DOMAIN tasks : tasks[k].kind = "idle" }

FirstFree == CHOOSE k \in FreeSlots : \A j \in FreeSlots : k <= j

\* No message and no attachment.
NoText == [body |-> None, pad |-> 0]

NoFile ==
    [kind |-> "none", file_name |-> None, mime_type |-> None,
     file_size |-> Size(0, 0), file_id |-> None]

\* How a handler ended: the branch it ended in (outcome), whether an
\* exception left it (raised), and for the handlers that have one the row
\* it inserted or tried to, the credentials authenticate() was called with,
\* the table before the INSERT and the temporary file; for
\* handle_upload_callback also the clause of the inner try that ended the
\* run (cause), which differs from the outcome when its report raised, and
\* for list_channels_command the rows it fetched (listing); for the
\* callbacks remove_<id> and upload_<id> the id they carried, for the
\* cancel callbacks their data.
NoReturn ==
    [handler |-> "none", user |-> 0, outcome |-> "none", raised |-> FALSE,
     inserted |-> FALSE, row |-> NoRow, cred |-> EmptyData,
     channels0 |-> {}, tmp |-> "none", text |-> NoText, file |-> NoFile,
     cause |-> "none", listing |-> <<>>, channel_id |-> 0, data |-> None]

Returns(handler, user, outcome, raised) ==
    returned' = [NoReturn EXCEPT !.handler = handler, !.user = user,
                                 !.outcome = outcome, !.raised = raised]

\* The callback that carried channel_id ended in the branch `outcome`.
ReturnsChannel(handler, user, channel_id, outcome, raised) ==
    returned' = [NoReturn EXCEPT !.handler = handler, !.user = user,
                                 !.outcome = outcome, !.raised = raised,
                                 !.channel_id = channel_id]

\* handle_text_messages ended in the branch `outcome` for the message t.
ReturnsText(user, t, outcome, raised) ==
    returned' = [NoReturn EXCEPT !.handler = "handle_text_messages",
                                 !.user = user, !.outcome = outcome,
                                 !.raised = raised, !.text = t]

\* handle_video_upload ended in the branch `outcome` for the attachment f.
ReturnsFile(user, f, outcome, raised) ==
    returned' = [NoReturn EXCEPT !.handler = "handle_video_upload",
                                 !.user = user, !.outcome = outcome,
                                 !.raised = raised, !.file = f]

\* The entry of `user` is replaced or deleted: the suspended handlers of
\* that user keep the dictionary they hold, which is the entry no more.
Detached(ts, user) ==
    [k \in DOMAIN ts |->
       IF ts[k].user = user THEN [ts[k] EXCEPT !.aliased = FALSE] ELSE ts[k]]

\* state["data"] of `user` is written in place: the suspended handlers
\* whose `state` is that entry see the new value.
Written(ts, user, data) ==
    [k \in DOMAIN ts |->
       IF ts[k].user = user /\ ts[k].aliased
       THEN [ts[k] EXCEPT !.data = data] ELSE ts[k]]

BInit ==
    /\ user_states = [u \in {} |-> None]
    /\ channels = {}
    /\ next_id = 1
    /\ clock = 0
    /\ tasks = [k \in 1..MaxTasks |-> Idle]
    /\ returned = NoReturn

\* get_db_connection (lines 43-55).  The handlers call it once per database
\* access; MaxCalls calls are followed.
MaxCalls == 3

\* max_retries=3 (line 43).
db_max_retries == 3

\* psycopg2.connect(DATABASE_URL) returns a connection or raises.
Connects == {"conn", "OperationalError"}

Connect(answer) == [ev |-> "connect", answer |-> answer, secs |-> 0]

\* time.sleep(2 ** attempt) (line 52).
TimeSleep(att) ==
    [ev |-> "sleep", answer |-> None, secs |-> Pow2(att)]

LastAttemptAlways(att) == TRUE

\* not (attempt < max_retries - 1) (line 50): the attempt was the last one.
LastAttempt(att) == ~(att < db_max_retries - 1)

DInit ==
    /\ db_attempt = -1
    /\ db_log = <<>>
    /\ db_ret = <<>>

\* A handler calls get_db_connection(): the loop starts at attempt 0.
get_db_connection_call ==
    /\ db_attempt = -1
    /\ Len(db_log) < MaxCalls
    /\ db_attempt' = 0
    /\ db_log' = Append(db_log, <<>>)
    /\ UNCHANGED db_ret
    /\ UNCHANGED uvars
    /\ UNCHANGED bvars
    /\ UNCHANGED naming
    /\ UNCHANGED throttle
    /\ UNCHANGED served

\* One iteration of the loop (lines 44-55): the connection is returned, or
\* the failure is followed by a sleep and the next iteration, or by
\* `return None`.
get_db_connection_attempt ==
    /\ db_attempt >= 0
    /\ db_attempt < db_max_retries
    /\ UNCHANGED uvars
    /\ UNCHANGED bvars
    /\ UNCHANGED naming
    /\ UNCHANGED throttle
    /\ UNCHANGED served
    /\ \E answer \in Connects :
         LET n == Len(db_log)
             logged(events) == [db_log EXCEPT ![n] = db_log[n] \o events]
         IN
         IF answer = "conn"
         THEN /\ db_log' = logged(<<Connect(answer)>>)
              /\ db_ret' = Append(db_ret, "conn")
              /\ db_attempt' = -1
         ELSE IF ~LastAttempt(db_attempt)
         THEN /\ db_log' = logged(<<Connect(answer), TimeSleep(db_attempt)>>)
              /\ db_attempt' = db_attempt + 1
              /\ UNCHANGED db_ret
         ELSE /\ db_log' = logged(<<Connect(answer)>>)
              /\ db_ret' = Append(db_ret, None)
              /\ db_attempt' = -1

DNext ==
    \/ get_db_connection_call
    \/ get_db_connection_attempt

\* ------------------------------------------------------------------------
\* The title and the description of an upload
\* ------------------------------------------------------------------------

\* A string is the sequence of its runs: n times the character c.  "a" is
\* a lower-case letter, "A" an upper-case one, "!" a character outside the
\* allow-list of line 1215.
Run(c, n) == [c |-> c, n |-> n]

\* The file names the users' documents carry, and the two names line 1008
\* and line 1011 make up.
NameChars == {"a", "_", "-", " ", "!", "."}
NameRuns == { Run(c, n) : c \in NameChars, n \in {1, 149, 1900} }
MaxRuns == 3

FileNames ==
    UNION { [1..k -> NameRuns] : k \in 0..MaxRuns }
      \cup { <<Run("a", 5), Run("_", 1), Run("a", 8), Run("_", 1),
               Run("a", 6), Run(".", 1), Run("a", 3)>>,
             <<Run("a", 5), Run("_", 1), Run("a", 8), Run("_", 1),
               Run("a", 6)>> }

\* The length of str(file_size) with thousands separators (line 1225).
FileSizeTexts == {1, 13}

\* len(s)
RECURSIVE StrLen(_)
StrLen(s) == IF s = <<>> THEN 0 ELSE Head(s).n + StrLen(Tail(s))

SliceAll(s, k) == s

\* s[:k]
RECURSIVE Slice(_, _)
Slice(s, k) ==
    IF s = <<>> \/ k <= 0 THEN <<>>
    ELSE IF Head(s).n <= k
         THEN <<Head(s)>> \o Slice(Tail(s), k - Head(s).n)
         ELSE <<Run(Head(s).c, k)>>

\* os.path.splitext(file_name)[0]: the name up to its last dot, the whole
\* name when it has no dot or only dots before the last one.
splitext_root(s) ==
    LET dots == { i \in 1..Len(s) : s[i].c = "." }
        last == CHOOSE i \in dots : \A j \in dots : j <= i
    IN  IF dots = {} \/ \A j \in 1..(last - 1) : s[j].c = "."
        THEN s
        ELSE SubSeq(s, 1, last - 1)
               \o (IF s[last].n > 1 THEN <<Run(".", s[last].n - 1)>> ELSE <<>>)

\* s.replace(old, new) for single characters.
replace(s, old, new) ==
    [i \in 1..Len(s) |-> IF s[i].c = old THEN Run(new, s[i].n) ELSE s[i]]

\* s.title(): a letter that follows no letter is made upper case, the
\* other letters lower case.
RECURSIVE title_from(_, _)
title_from(s, after_letter) ==
    IF s = <<>> THEN <<>>
    ELSE LET r == Head(s)
         IN  IF r.c \in {"a", "A"}
             THEN (IF after_letter THEN <<Run("a", r.n)>>
                   ELSE <<Run("A", 1)>>
                          \o (IF r.n > 1 THEN <<Run("a", r.n - 1)>> ELSE <<>>))
                    \o title_from(Tail(s), TRUE)
             ELSE <<r>> \o title_from(Tail(s), FALSE)

title(s) == title_from(s, FALSE)

\* c.isalnum() or c in (' ', '-', '_', '.', '(', ')', '[', ']')
Allowed(c) == c \in {"a", "A"} \/ c \in {" ", "-", "_", ".", "(", ")", "[", "]"}

\* ''.join(c for c in title if ...) (line 1215)
Join(s) == SelectSeq(s, LAMBDA r : Allowed(r.c))

\* s.strip() of a string of these characters: what is left between its
\* first and its last character that is no space.
strip_runs(s) ==
    LET solid == { i \in 1..Len(s) : s[i].c # " " }
    IN  IF solid = {} THEN <<>>
        ELSE SubSeq(s, CHOOSE i \in solid : \A j \in solid : i <= j,
                       CHOOSE i \in solid : \A j \in solid : j <= i)

\* f"Video Upload {datetime.now().strftime('%Y-%m-%d %H:%M')}" (line 1219)
DefaultTitle ==
    <<Run("A", 1), Run("a", 4), Run(" ", 1), Run("A", 1), Run("a", 5),
      Run(" ", 1), Run("a", 4), Run("-", 1), Run("a", 2), Run("-", 1),
      Run("a", 2), Run(" ", 1), Run("a", 2), Run(":", 1), Run("a", 2)>>

\* The title of lines 1214-1219.
DerivedTitle(file_name) ==
    LET t1 == title(replace(replace(splitext_root(file_name), "_", " "),
                            "-", " "))
        t2 == Join(t1)
        t3 == IF StrLen(t2) > 150
              THEN Slice(t2, 147) \o <<Run(".", 3)>> ELSE t2
    IN  IF strip_runs(t3) = <<>> THEN DefaultTitle ELSE t3

\* The description of lines 1221-1227: 89 characters, the file name, 57
\* characters and the file size between them.
Description(file_name, size_text) ==
    <<Run("a", 89)>> \o file_name \o <<Run("a", 57 + size_text)>>

NoNaming ==
    [pc |-> "idle", file_name |-> <<>>, title |-> <<>>, description |-> <<>>,
     data_title |-> <<>>, data_description |-> <<>>]

TInit == naming = NoNaming

\* handle_upload_callback derives the title and the description and passes
\* them to upload_video (lines 1214-1236).
derive_title ==
    /\ naming.pc = "idle"
    /\ \E file_name \in FileNames, size_text \in FileSizeTexts :
         naming' = [naming EXCEPT
                      !.pc = "upload_video",
                      !.file_name = file_name,
                      !.title = DerivedTitle(file_name),
                      !.description = Description(file_name, size_text)]
    /\ UNCHANGED uvars
    /\ UNCHANGED bvars
    /\ UNCHANGED dvars
    /\ UNCHANGED throttle
    /\ UNCHANGED served

\* create_video fills video_data (lines 322-330).
video_data ==
    /\ naming.pc = "upload_video"
    /\ naming' = [naming EXCEPT
                    !.pc = "create_video",
                    !.data_title = Slice(naming.title, 150),
                    !.data_description =
                       IF naming.description # <<>>
                       THEN Slice(naming.description, 2000) ELSE <<>>]
    /\ UNCHANGED uvars
    /\ UNCHANGED bvars
    /\ UNCHANGED dvars
    /\ UNCHANGED throttle
    /\ UNCHANGED served

TNext == derive_title \/ video_data

\* ------------------------------------------------------------------------
\* The progress callbacks update_download_progress and
\* update_upload_progress (lines 1394-1486)
\* ------------------------------------------------------------------------

\* The upload runs whose callbacks are followed; they may overlap.
ProgressRuns == {1, 2}

\* int((current / total) * 100) of the download ticks of a run.
DownloadTicks == <<7, 100>>

\* The values upload_video passes to its callback, in order: those of
\* lines 370, 379, 388 and 398 are ints, those of the lambdas of lines 392
\* and 402 are floats.
UploadTicks ==
    <<[percent |-> 5, float |-> FALSE],
      [percent |-> 15, float |-> FALSE],
      [percent |-> 20, float |-> FALSE],
      [percent |-> FileStagePercent(10), float |-> TRUE],
      [percent |-> FileStagePercent(30), float |-> TRUE],
      [percent |-> FileStagePercent(50), float |-> TRUE],
      [percent |-> FileStagePercent(80), float |-> TRUE],
      [percent |-> 85, float |-> FALSE],
      [percent |-> VideoStagePercent(100), float |-> TRUE]>>

\* The time that passes before a download tick is handled, in seconds.
Delays == {1, 3}

\* One handled tick of a run: whether edit_text was called (edit) and
\* whether it returned (sent); own is what the same test answers on
\* attributes that only the ticks of this run have written.
Tick(kind, percent, edit, sent, own) ==
    [kind |-> kind, percent |-> percent, edit |-> edit, sent |-> sent,
     own |-> own]

NoTick == Tick("none", 0, FALSE, FALSE, FALSE)

\* time_diff >= 3 or percent >= 95 or percent % 20 == 0 (line 1411).
DownloadEdits(time_diff, percent) ==
    time_diff >= 3 \/ percent >= 95 \/ percent % 20 = 0

abs(n) == IF n < 0 THEN 0 - n ELSE n

\* percent_diff >= 15 or progress_percent >= 95 or progress_percent <= 5
\* (lines 1469-1471).
UploadEdits(progress_percent, last_percent) ==
    \/ abs(progress_percent - last_percent) >= 15
    \/ progress_percent >= 95
    \/ progress_percent <= 5

\* The function attributes (has_last_update is hasattr(...)), the loop's
\* time, and per run: the ticks handled so far, the last of them, and the
\* values the attributes would hold if the run had them to itself.
PInit ==
    throttle = [has_last_update |-> FALSE, last_update |-> 0,
                has_last_percent |-> FALSE, last_percent |-> 0,
                now |-> 0,
                handled |-> [r \in ProgressRuns |-> 0],
                last |-> [r \in ProgressRuns |-> NoTick],
                own_update |-> [r \in ProgressRuns |-> 0],
                own_percent |-> [r \in ProgressRuns |-> 0]]

\* update_download_progress (lines 1394-1444) handles the next download
\* tick of run r.  The first call in the process sets the attributes and
\* returns (1404-1407); an edit_text that raises leaves them as they were.
update_download_progress(r) ==
    /\ throttle.handled[r] < Len(DownloadTicks)
    /\ \E delay \in Delays, sent \in BOOLEAN :
         LET percent == DownloadTicks[throttle.handled[r] + 1]
             current_time == throttle.now + delay
             time_diff == current_time - throttle.last_update
             edit == /\ throttle.has_last_update
                     /\ DownloadEdits(time_diff, percent)
             first == throttle.handled[r] = 0
             own == /\ ~first
                    /\ DownloadEdits(current_time - throttle.own_update[r],
                                     percent)
         IN  /\ edit \/ sent
             /\ throttle' =
                  [throttle EXCEPT
                     !.now = current_time,
                     !.has_last_update = TRUE,
                     !.last_update =
                        IF ~throttle.has_last_update \/ (edit /\ sent)
                        THEN current_time ELSE @,
                     !.handled[r] = @ + 1,
                     !.last[r] = Tick("download", percent, edit,
                                      edit /\ sent, own),
                     !.own_update[r] =
                        IF first \/ (own /\ sent) THEN current_time ELSE @]
    /\ UNCHANGED uvars
    /\ UNCHANGED bvars
    /\ UNCHANGED dvars
    /\ UNCHANGED naming
    /\ UNCHANGED served

\* update_upload_progress (lines 1446-1486) handles the next upload tick of
\* run r.  A float makes line 1448 raise TypeError, which the except
\* clause swallows before anything is decided.
update_upload_progress(r) ==
    /\ throttle.handled[r] >= Len(DownloadTicks)
    /\ throttle.handled[r] < Len(DownloadTicks) + Len(UploadTicks)
    /\ \E sent \in BOOLEAN :
         LET tick == UploadTicks[throttle.handled[r] - Len(DownloadTicks) + 1]
             last_percent == IF throttle.has_last_percent
                             THEN throttle.last_percent ELSE 0
             edit == /\ ~tick.float
                     /\ UploadEdits(tick.percent, last_percent)
             own == /\ ~tick.float
                    /\ UploadEdits(tick.percent, throttle.own_percent[r])
         IN  /\ edit \/ sent
             /\ throttle' =
                  [throttle EXCEPT
                     !.has_last_percent = @ \/ ~tick.float,
                     !.last_percent = IF edit /\ sent THEN tick.percent
                                      ELSE last_percent,
                     !.handled[r] = @ + 1,
                     !.last[r] = Tick("upload", tick.percent, edit,
                                      edit /\ sent, own),
                     !.own_percent[r] =
                        IF own /\ sent THEN tick.percent ELSE @]
    /\ UNCHANGED uvars
    /\ UNCHANGED bvars
    /\ UNCHANGED dvars
    /\ UNCHANGED naming
    /\ UNCHANGED served

PNext ==
    \/ \E r \in ProgressRuns : update_download_progress(r)
    \/ \E r \in ProgressRuns : update_upload_progress(r)

\* ------------------------------------------------------------------------
\* HealthCheckHandler.do_GET (src/health.py, lines 8-49)
\* ------------------------------------------------------------------------

\* MaxRequests requests are followed.
MaxRequests == 3

\* self.path of the requests.
HealthPaths == {"/health", "/health/", "/", "/status"}

\* What the check of the database does: connect and SELECT 1 succeed, the
\* connect raises, or the query raises.
DbChecks == {"ok", "connect_raises", "query_raises"}

IsUnderHealth(path) == path \in {"/health", "/health/"}

\* self.path == '/health' (line 9).
IsHealthPath(path) == path = "/health"

\* One answered request: the status code, the status member of the JSON
\* body, and what happened to the database ("untouched" when no connection
\* was asked for).
Answer(path, db, code, status) ==
    [path |-> path, db |-> db, code |-> code, status |-> status]

HInit == served = <<>>

do_GET(path) ==
    /\ Len(served) < MaxRequests
    /\ IF IsHealthPath(path)
       THEN \E db \in DbChecks :
              served' = Append(served,
                               IF db = "ok"
                               THEN Answer(path, db, 200, "healthy")
                               ELSE Answer(path, db, 503, "unhealthy"))
       ELSE served' = Append(served,
                             Answer(path, "untouched", 200, "running"))
    /\ UNCHANGED uvars
    /\ UNCHANGED bvars
    /\ UNCHANGED dvars
    /\ UNCHANGED naming
    /\ UNCHANGED throttle

HNext == \E path \in HealthPaths : do_GET(path)

Init == UInit /\ BInit /\ DInit /\ TInit /\ PInit /\ HInit

\* /addchannel (lines 671-685): the entry is replaced by a new wizard state.
add_channel_command(u) ==
    /\ returned = NoReturn
    /\ user_states' = SetItem(user_states, u,
                              [step |-> "channel_name", data |-> EmptyData])
    /\ tasks' = Detached(tasks, u)
    /\ \E sent \in BOOLEAN : Returns("add_channel_command", u, "started", ~sent)
    /\ UNCHANGED <<channels, next_id, clock>>
    /\ UNCHANGED uvars
    /\ UNCHANGED dvars
    /\ UNCHANGED naming
    /\ UNCHANGED throttle
    /\ UNCHANGED served

\* handle_text_messages (lines 834-923) up to the await of authenticate():
\* the steps channel_name .. username, and the password step as far as the
\* uploader is built.
handle_text_messages(u, t) ==
    /\ returned = NoReturn
    /\ UNCHANGED <<channels, next_id, clock>>
    /\ UNCHANGED uvars
    /\ UNCHANGED dvars
    /\ UNCHANGED naming
    /\ UNCHANGED throttle
    /\ UNCHANGED served
    /\ IF u \notin DOMAIN user_states
       THEN /\ ReturnsText(u, t, "no_state", FALSE)
            /\ UNCHANGED <<user_states, tasks>>
       ELSE
         LET state == user_states[u]
             text == strip(t)
         IN
         IF state.step \notin WizardSteps
         THEN /\ ReturnsText(u, t, "other_step", FALSE)
              /\ UNCHANGED <<user_states, tasks>>
         ELSE IF ~Accepts(state.step, text)
         THEN /\ \E sent \in BOOLEAN :
                   ReturnsText(u, t, "rejected", ~sent)
              /\ UNCHANGED <<user_states, tasks>>
         ELSE IF state.step # "password"
         THEN /\ user_states' =
                   [user_states EXCEPT ![u] =
                      [step |-> NextStep(state.step),
                       data |-> SetItem(state.data, state.step, text)]]
              /\ \E sent \in BOOLEAN :
                   ReturnsText(u, t, "accepted", ~sent)
              /\ UNCHANGED tasks
         ELSE
           LET data == SetItem(state.data, "password", text)
               seen == Written(tasks, u, data)
           IN  /\ user_states' = [user_states EXCEPT ![u].data = data]
               /\ \E sent \in BOOLEAN :
                    IF ~sent
                    THEN /\ ReturnsText(u, t, "testing", TRUE)
                         /\ tasks' = seen
                    ELSE /\ FreeSlots # {}
                         /\ tasks' = [seen EXCEPT ![FirstFree] =
                                        [Idle EXCEPT !.kind = "password",
                                                     !.user = u,
                                                     !.pc = "authenticate",
                                                     !.data = data,
                                                     !.aliased = TRUE,
                                                     !.cred = data]]
                         /\ UNCHANGED returned

\* A handler that was suspended ends: its slot is free again.
Ends(k, handler, outcome, raised) ==
    /\ tasks' = [tasks EXCEPT ![k] = Idle]
    /\ returned' = [NoReturn EXCEPT !.handler = handler,
                                    !.user = tasks[k].user,
                                    !.outcome = outcome,
                                    !.raised = raised,
                                    !.inserted = tasks[k].inserted,
                                    !.row = tasks[k].row,
                                    !.cred = tasks[k].cred,
                                    !.tmp = tasks[k].tmp]

\* handle_text_messages from the return of authenticate() (line 923) to the
\* await of the edit_text that reports the outcome: the failure branch
\* (lines 925-941), or get_db_connection and the INSERT (lines 945-963).
\* token is uploader.access_token, None when authenticate() returned False.
password_after_authenticate(k) ==
    /\ returned = NoReturn
    /\ tasks[k].kind = "password"
    /\ tasks[k].pc = "authenticate"
    /\ UNCHANGED user_states
    /\ UNCHANGED uvars
    /\ UNCHANGED dvars
    /\ UNCHANGED naming
    /\ UNCHANGED throttle
    /\ UNCHANGED served
    /\ \E auth_success \in BOOLEAN, db \in {"ok", "down", "error"} :
         LET task == tasks[k]
             token == IF auth_success THEN "t1" ELSE None
             now == clock + 1
             row == Row(next_id, task.user, task.data, token, now)
             res == Insert(channels, row)
         IN
         IF token = None
         THEN /\ db = "ok" /\ now = clock
              /\ tasks' = [tasks EXCEPT ![k].pc = "edit_auth_failed"]
              /\ UNCHANGED <<channels, next_id, clock, returned>>
         ELSE IF db = "down"
         THEN /\ \E sent \in BOOLEAN :
                   Ends(k, "handle_text_messages", "db_down", ~sent)
              /\ UNCHANGED <<channels, next_id, clock>>
         ELSE IF db = "error"
         THEN /\ \E sent \in BOOLEAN :
                   Ends(k, "handle_text_messages", "db_error", ~sent)
              /\ UNCHANGED <<channels, next_id, clock>>
         ELSE /\ next_id <= MaxId
              /\ next_id' = next_id + 1
              /\ clock' = now
              /\ channels' = res.table
              /\ IF res.error # None
                 THEN \E sent \in BOOLEAN :
                        /\ tasks' = [tasks EXCEPT ![k] = Idle]
                        /\ returned' =
                             [NoReturn EXCEPT
                                !.handler = "handle_text_messages",
                                !.user = task.user,
                                !.outcome = "already_exists",
                                !.raised = ~sent,
                                !.row = row,
                                !.cred = task.cred,
                                !.channels0 = channels]
                 ELSE /\ tasks' = [tasks EXCEPT ![k].pc = "edit_saved",
                                                ![k].inserted = TRUE,
                                                ![k].row = row]
                      /\ UNCHANGED returned

\* handle_text_messages from the return of that edit_text to its end: the
\* del of the failure branch (line 942), or the del of the success branch
\* (line 978) inside the try whose except clause reports a database error
\* (lines 989-995).
password_after_edit(k) ==
    /\ returned = NoReturn
    /\ tasks[k].kind = "password"
    /\ tasks[k].pc \in {"edit_auth_failed", "edit_saved"}
    /\ UNCHANGED <<channels, next_id, clock>>
    /\ UNCHANGED uvars
    /\ UNCHANGED dvars
    /\ UNCHANGED naming
    /\ UNCHANGED throttle
    /\ UNCHANGED served
    /\ LET u == tasks[k].user
           has == u \in DOMAIN user_states
           freed == [Detached(tasks, u) EXCEPT ![k] = Idle]
           ended(outcome, raised) ==
               returned' = [NoReturn EXCEPT
                              !.handler = "handle_text_messages",
                              !.user = u, !.outcome = outcome,
                              !.raised = raised,
                              !.inserted = tasks[k].inserted,
                              !.row = tasks[k].row, !.cred = tasks[k].cred]
       IN
       \E sent \in BOOLEAN :
         IF sent /\ has
         THEN /\ user_states' = DelItem(user_states, u)
              /\ tasks' = freed
              /\ ended(IF tasks[k].pc = "edit_saved"
                       THEN "saved" ELSE "auth_failed", FALSE)
         ELSE /\ UNCHANGED user_states
              /\ tasks' = [tasks EXCEPT ![k] = Idle]
              /\ IF tasks[k].pc = "edit_saved"
                 THEN \E sent2 \in BOOLEAN : ended("saved_db_error", ~sent2)
                 ELSE ended("auth_failed", TRUE)


\* /list (lines 687-734).
list_channels_command(u) ==
    /\ returned = NoReturn
    /\ UNCHANGED <<user_states, channels, next_id, clock, tasks>>
    /\ UNCHANGED uvars
    /\ UNCHANGED dvars
    /\ UNCHANGED naming
    /\ UNCHANGED throttle
    /\ UNCHANGED served
    /\ \E db \in {"ok", "down", "error"}, sent \in BOOLEAN :
         IF db = "down"
         THEN Returns("list_channels_command", u, "db_down", ~sent)
         ELSE IF db = "error"
         THEN Returns("list_channels_command", u, "error", ~sent)
         ELSE \E fetched \in OrderByCreatedAtDesc(WhereUser(channels, u)) :
                IF sent
                THEN returned' =
                       [NoReturn EXCEPT
                          !.handler = "list_channels_command",
                          !.user = u,
                          !.outcome = IF Len(fetched) = 0
                                      THEN "no_channels" ELSE "listed",
                          !.listing = [i \in 1..Len(fetched) |->
                                         Listed(fetched[i])]]
                ELSE \E sent2 \in BOOLEAN :
                       Returns("list_channels_command", u, "error", ~sent2)

HasNoChannelNever(channel_count) == FALSE

\* channel_count == 0 (line 798).
HasNoChannel(channel_count) == channel_count = 0

\* /upload (lines 782-832).
upload_command(u) ==
    /\ returned = NoReturn
    /\ UNCHANGED <<channels, next_id, clock>>
    /\ UNCHANGED uvars
    /\ UNCHANGED dvars
    /\ UNCHANGED naming
    /\ UNCHANGED throttle
    /\ UNCHANGED served
    /\ \E db \in {"ok", "down", "error"}, sent \in BOOLEAN :
         LET channel_count == Cardinality({ r \in channels : r.user_id = u })
         IN
         IF db = "down"
         THEN /\ Returns("upload_command", u, "db_down", ~sent)
              /\ UNCHANGED <<user_states, tasks>>
         ELSE IF db = "error"
         THEN /\ Returns("upload_command", u, "error", ~sent)
              /\ UNCHANGED <<user_states, tasks>>
         ELSE IF HasNoChannel(channel_count)
         THEN /\ Returns("upload_command", u, "no_channels", ~sent)
              /\ UNCHANGED <<user_states, tasks>>
         ELSE /\ user_states' = SetItem(user_states, u,
                                        [step |-> "waiting_video"])
              /\ tasks' = Detached(tasks, u)
              /\ IF sent
                 THEN Returns("upload_command", u, "waiting_video", FALSE)
                 ELSE \E sent2 \in BOOLEAN :
                        Returns("upload_command", u, "error", ~sent2)

\* file_size > max_size, max_size being 4 GiB (lines 1018-1019).
TooLarge(size) == size.gib > 4 \/ (size.gib = 4 /\ size.rest > 0)

\* The attachments the users send: a video message, and documents with a
\* name, a MIME type and a size.
Files ==
    { [kind |-> "video", file_name |-> None, mime_type |-> "video/mp4",
       file_size |-> Size(0, 1000), file_id |-> "f1"],
      [kind |-> "document", file_name |-> "clip.mp4", mime_type |-> "video/mp4",
       file_size |-> Size(0, 1000), file_id |-> "f2"],
      [kind |-> "document", file_name |-> "notes.txt", mime_type |-> "text/plain",
       file_size |-> Size(0, 1000), file_id |-> "f3"],
      [kind |-> "document", file_name |-> "clip.mp4", mime_type |-> "video/mp4",
       file_size |-> Size(4, 1), file_id |-> "f4"] }

\* file_name and mime_type as lines 1006-1013 derive them.
FileName(f) ==
    IF f.kind = "video" THEN "video_ts.mp4"
    ELSE IF f.file_name # None THEN f.file_name ELSE "video_ts"

MimeType(f) ==
    IF f.kind = "video" THEN "video/mp4"
    ELSE IF f.mime_type # None THEN f.mime_type ELSE ""

\* os.path.splitext(name)[1] of the names above.
splitext(name) ==
    CASE name \in {"video_ts.mp4", "clip.mp4"} -> ".mp4"
      [] name = "notes.txt" -> ".txt"
      [] name = "clip.mpg" -> ".mpg"
      [] name = "raw.bin" -> ".bin"
      [] OTHER -> ""

video_extensions ==
    {".mp4", ".avi", ".mov", ".mkv", ".wmv", ".flv", ".webm", ".m4v", ".3gp",
     ".m2v", ".mpg", ".mpeg"}

\* 'video/' or 'application/octet-stream' occurs in the MIME type.
MimeLooksVideo(mime) ==
    mime \in {"video/mp4", "video/quicktime", "video/mpeg",
              "application/octet-stream"}

\* The type check of lines 1036-1037 passes.
TypeAccepted(f) ==
    splitext(FileName(f)) \in video_extensions \/ MimeLooksVideo(MimeType(f))

AwaitsAnyUploadStep(state) == state.step \in {"waiting_video", "select_channel"}

\* user_states[user_id]["step"] != "waiting_video" does not hold (line 1002).
AwaitsVideo(state) == state.step = "waiting_video"

\* handle_video_upload (lines 999-1105).
handle_video_upload(u, f) ==
    /\ returned = NoReturn
    /\ UNCHANGED <<channels, next_id, clock>>
    /\ UNCHANGED uvars
    /\ UNCHANGED dvars
    /\ UNCHANGED naming
    /\ UNCHANGED throttle
    /\ UNCHANGED served
    /\ IF u \notin DOMAIN user_states
       THEN /\ ReturnsFile(u, f, "no_state", FALSE)
            /\ UNCHANGED <<user_states, tasks>>
       ELSE IF ~AwaitsVideo(user_states[u])
       THEN /\ ReturnsFile(u, f, "other_step", FALSE)
            /\ UNCHANGED <<user_states, tasks>>
       ELSE
         \E db \in {"ok", "down", "error"}, sent \in BOOLEAN :
           LET mine == { r \in channels : r.user_id = u }
           IN
           IF TooLarge(f.file_size)
           THEN /\ db = "ok"
                /\ ReturnsFile(u, f, "too_large", ~sent)
                /\ UNCHANGED <<user_states, tasks>>
           ELSE IF ~TypeAccepted(f)
           THEN /\ db = "ok"
                /\ ReturnsFile(u, f, "invalid_type", ~sent)
                /\ UNCHANGED <<user_states, tasks>>
           ELSE IF db = "down"
           THEN /\ ReturnsFile(u, f, "db_down", ~sent)
                /\ UNCHANGED <<user_states, tasks>>
           ELSE IF db = "error"
           THEN /\ ReturnsFile(u, f, "error", ~sent)
                /\ UNCHANGED <<user_states, tasks>>
           ELSE IF mine = {}
           THEN IF sent
                THEN /\ user_states' = DelItem(user_states, u)
                     /\ tasks' = Detached(tasks, u)
                     /\ ReturnsFile(u, f, "no_channels", FALSE)
                ELSE /\ UNCHANGED <<user_states, tasks>>
                     /\ \E sent2 \in BOOLEAN :
                          ReturnsFile(u, f, "error", ~sent2)
           ELSE /\ user_states' =
                     [user_states EXCEPT ![u] =
                        [step |-> "select_channel", file_info |-> f,
                         file_name |-> FileName(f), message_id |-> f.file_id]]
                /\ UNCHANGED tasks
                /\ IF sent
                   THEN ReturnsFile(u, f, "select_channel", FALSE)
                   ELSE \E sent2 \in BOOLEAN :
                          ReturnsFile(u, f, "error", ~sent2)

\* The callback data of the two Cancel buttons (lines 766, 1080, 1121).
CancelData == {"cancel_upload", "cancel_remove"}

\* handle_callback_query for cancel_upload and cancel_remove (lines
\* 1121-1128): one branch serves both.
cancel_callback(u, data) ==
    /\ returned = NoReturn
    /\ UNCHANGED <<channels, next_id, clock>>
    /\ UNCHANGED uvars
    /\ UNCHANGED dvars
    /\ UNCHANGED naming
    /\ UNCHANGED throttle
    /\ UNCHANGED served
    /\ IF u \in DOMAIN user_states
       THEN /\ user_states' = DelItem(user_states, u)
            /\ tasks' = Detached(tasks, u)
       ELSE UNCHANGED <<user_states, tasks>>
    /\ \E sent \in BOOLEAN :
         LET ended(outcome, raised) ==
                 returned' = [NoReturn EXCEPT
                                !.handler = "handle_callback_query",
                                !.user = u, !.outcome = outcome,
                                !.raised = raised, !.data = data]
         IN  IF sent
             THEN ended("cancelled", FALSE)
             ELSE \E sent2 \in BOOLEAN : ended("error", ~sent2)

\* handle_remove_callback (lines 1353-1392).
handle_remove_callback(u, channel_id) ==
    /\ returned = NoReturn
    /\ UNCHANGED <<user_states, next_id, clock, tasks>>
    /\ UNCHANGED uvars
    /\ UNCHANGED dvars
    /\ UNCHANGED naming
    /\ UNCHANGED throttle
    /\ UNCHANGED served
    /\ \E db \in {"ok", "down", "error"}, sent \in BOOLEAN :
         LET found == WhereIdAndUser(channels, channel_id, u)
             ended(outcome, raised) ==
                 ReturnsChannel("handle_remove_callback", u, channel_id,
                                outcome, raised)
         IN
         IF db = "down"
         THEN /\ UNCHANGED channels
              /\ IF sent
                 THEN ended("db_down", FALSE)
                 ELSE \E sent2 \in BOOLEAN :
                        ended("error", ~sent2)
         ELSE IF db = "error"
         THEN /\ ended("error", ~sent)
              /\ UNCHANGED channels
         ELSE IF found = {}
         THEN /\ UNCHANGED channels
              /\ IF sent
                 THEN ended("not_found", FALSE)
                 ELSE \E sent2 \in BOOLEAN :
                        ended("error", ~sent2)
         ELSE /\ channels' = channels \ WhereIdAndUser(channels, channel_id, u)
              /\ IF sent
                 THEN ended("removed", FALSE)
                 ELSE \E sent2 \in BOOLEAN :
                        ended("error", ~sent2)


\* os.unlink(temp_file_path) inside try/except: an existing file is
\* removed, a missing one stays missing.
unlink(tmp) == IF tmp \in {"empty", "data"} THEN "deleted" ELSE tmp

\* The file exists.
exists(tmp) == tmp \in {"empty", "data"}

\* handle_upload_callback (lines 1130-1181) up to the await of
\* download_media: the channel is read, the user's entry is read (the local
\* `state` of line 1156 is that entry), the temporary file is created.  Every exception ends in the clause of lines
\* 1333-1351.
handle_upload_callback(u, channel_id) ==
    /\ returned = NoReturn
    /\ UNCHANGED <<user_states, channels, next_id, clock>>
    /\ UNCHANGED uvars
    /\ UNCHANGED dvars
    /\ UNCHANGED naming
    /\ UNCHANGED throttle
    /\ UNCHANGED served
    /\ \E fault \in {"none", "edit", "db_down", "db_error", "edit_progress"} :
         LET found == WhereIdAndUser(channels, channel_id, u)
             ended(outcome, raised) ==
                 ReturnsChannel("handle_upload_callback", u, channel_id,
                                outcome, raised)
             has_file == /\ u \in DOMAIN user_states
                         /\ "file_info" \in DOMAIN user_states[u]
         IN
         IF fault \in {"edit", "db_error"}
         THEN /\ ended("critical_error", FALSE)
              /\ UNCHANGED tasks
         ELSE IF fault = "db_down"
         THEN /\ ended("db_down", FALSE)
              /\ UNCHANGED tasks
         ELSE IF found = {}
         THEN /\ fault = "none"
              /\ ended("not_found", FALSE)
              /\ UNCHANGED tasks
         ELSE IF ~has_file \/ fault = "edit_progress"
         THEN /\ ended("critical_error", FALSE)
              /\ UNCHANGED tasks
         ELSE /\ FreeSlots # {}
              /\ tasks' = [tasks EXCEPT ![FirstFree] =
                             [Idle EXCEPT
                                !.kind = "upload", !.user = u,
                                !.pc = "download_media",
                                !.aliased = TRUE,
                                !.channel = CHOOSE r \in found : TRUE,
                                !.file_name = user_states[u].file_name,
                                !.tmp = "empty"]]
              /\ UNCHANGED returned

\* The handler `k` ends with the user's entry cleared (lines 1330-1331).
UploadEndsCleared(k, outcome, tmp) ==
    LET u == tasks[k].user
    IN  /\ user_states' = IF u \in DOMAIN user_states
                          THEN DelItem(user_states, u) ELSE user_states
        /\ tasks' = [IF u \in DOMAIN user_states
                     THEN Detached(tasks, u) ELSE tasks EXCEPT ![k] = Idle]
        /\ returned' = [NoReturn EXCEPT !.handler = "handle_upload_callback",
                                        !.user = u, !.outcome = outcome,
                                        !.tmp = tmp, !.cause = outcome]

\* The handler `k` ends by a return or in the clause of lines 1333-1351:
\* the user's entry is left as it is.
UploadEndsKept(k, outcome, tmp) ==
    /\ UNCHANGED user_states
    /\ tasks' = [tasks EXCEPT ![k] = Idle]
    /\ returned' = [NoReturn EXCEPT !.handler = "handle_upload_callback",
                                    !.user = tasks[k].user,
                                    !.outcome = outcome, !.tmp = tmp,
                                    !.cause = outcome]

\* The except clauses of the inner try (lines 1286-1328): the file is
\* unlinked, the outcome is reported; if the report raises, the clause of
\* lines 1333-1351 ends the handler.
UploadExcept(k, outcome, tmp) ==
    \E sent \in BOOLEAN :
      IF sent
      THEN UploadEndsCleared(k, outcome, unlink(tmp))
      ELSE /\ UNCHANGED user_states
           /\ tasks' = [tasks EXCEPT ![k] = Idle]
           /\ returned' = [NoReturn EXCEPT
                             !.handler = "handle_upload_callback",
                             !.user = tasks[k].user,
                             !.outcome = "critical_error",
                             !.tmp = unlink(tmp), !.cause = outcome]

\* handle_upload_callback from the return of download_media to the await of
\* upload_video (lines 1175-1229).  download_media leaves a file with data,
\* leaves the empty file as it was created, leaves no file, raises, or is
\* cancelled.
upload_after_download(k) ==
    /\ returned = NoReturn
    /\ tasks[k].kind = "upload"
    /\ tasks[k].pc = "download_media"
    /\ UNCHANGED <<channels, next_id, clock>>
    /\ UNCHANGED uvars
    /\ UNCHANGED dvars
    /\ UNCHANGED naming
    /\ UNCHANGED throttle
    /\ UNCHANGED served
    /\ \E got \in {"data", "empty", "absent", "raise", "cancel"},
          sent \in BOOLEAN :
         LET tmp == IF got \in {"data", "empty", "absent"}
                    THEN got ELSE tasks[k].tmp
         IN
         IF got = "cancel"
         THEN /\ sent
              /\ UploadExcept(k, "cancelled", tmp)
         ELSE IF got = "raise"
         THEN /\ sent
              /\ UploadExcept(k, "upload_error", tmp)
         ELSE IF ~exists(tmp) \/ tmp = "empty"
         THEN IF sent
              THEN UploadEndsKept(k, "download_failed", tmp)
              ELSE UploadExcept(k, "upload_error", tmp)
         ELSE IF sent
              THEN /\ tasks' = [tasks EXCEPT ![k].pc = "upload_video",
                                             ![k].tmp = tmp]
                   /\ UNCHANGED <<user_states, returned>>
              ELSE UploadExcept(k, "upload_error", tmp)

\* handle_upload_callback from the return of upload_video to its end or to
\* the await of get_upload_error_details (lines 1229-1267): the file is
\* unlinked, then a URL is reported or the diagnostics are started.
upload_after_upload_video(k) ==
    /\ returned = NoReturn
    /\ tasks[k].kind = "upload"
    /\ tasks[k].pc = "upload_video"
    /\ UNCHANGED <<channels, next_id, clock>>
    /\ UNCHANGED uvars
    /\ UNCHANGED dvars
    /\ UNCHANGED naming
    /\ UNCHANGED throttle
    /\ UNCHANGED served
    /\ \E video_url \in {"url", None, "cancel"}, sent \in BOOLEAN :
         IF video_url = "cancel"
         THEN /\ sent
              /\ UploadExcept(k, "cancelled", tasks[k].tmp)
         ELSE IF video_url # None
         THEN IF sent
              THEN UploadEndsCleared(k, "uploaded", unlink(tasks[k].tmp))
              ELSE UploadExcept(k, "upload_error", unlink(tasks[k].tmp))
         ELSE /\ sent
              /\ tasks' = [tasks EXCEPT ![k].pc = "get_upload_error_details",
                                        ![k].tmp = unlink(tasks[k].tmp)]
              /\ UNCHANGED <<user_states, returned>>

\* handle_upload_callback from the return of get_upload_error_details to
\* its end (lines 1267-1331).
upload_after_diagnostics(k) ==
    /\ returned = NoReturn
    /\ tasks[k].kind = "upload"
    /\ tasks[k].pc = "get_upload_error_details"
    /\ UNCHANGED <<channels, next_id, clock>>
    /\ UNCHANGED uvars
    /\ UNCHANGED dvars
    /\ UNCHANGED naming
    /\ UNCHANGED throttle
    /\ UNCHANGED served
    /\ \E cancelled \in BOOLEAN, sent \in BOOLEAN :
         IF cancelled
         THEN /\ sent
              /\ UploadExcept(k, "cancelled", tasks[k].tmp)
         ELSE IF sent
              THEN UploadEndsCleared(k, "upload_failed", tasks[k].tmp)
              ELSE UploadExcept(k, "upload_error", tasks[k].tmp)


\* /start and /help (lines 454-533): one reply, outside any try.
start_command(u) ==
    /\ returned = NoReturn
    /\ \E sent \in BOOLEAN : Returns("start_command", u, "replied", ~sent)
    /\ UNCHANGED <<user_states, channels, next_id, clock, tasks>>
    /\ UNCHANGED uvars
    /\ UNCHANGED dvars
    /\ UNCHANGED naming
    /\ UNCHANGED throttle
    /\ UNCHANGED served

help_command(u) ==
    /\ returned = NoReturn
    /\ \E sent \in BOOLEAN : Returns("help_command", u, "replied", ~sent)
    /\ UNCHANGED <<user_states, channels, next_id, clock, tasks>>
    /\ UNCHANGED uvars
    /\ UNCHANGED dvars
    /\ UNCHANGED naming
    /\ UNCHANGED throttle
    /\ UNCHANGED served

\* /testauth (lines 535-597): the user's rows are read and authenticate()
\* is called on an uploader built from each; the tokens are not stored.
\* The first reply and the edit of the no-connection branch are outside
\* the try, the edit of the except clause raises to the dispatcher.
test_auth_command(u) ==
    /\ returned = NoReturn
    /\ \E db \in {"ok", "down", "error"}, sent \in BOOLEAN :
         IF db = "down"
         THEN Returns("test_auth_command", u, "db_down", ~sent)
         ELSE IF db = "error"
         THEN Returns("test_auth_command", u, "error", ~sent)
         ELSE IF sent
         THEN Returns("test_auth_command", u,
                      IF WhereUser(channels, u) = {}
                      THEN "no_channels" ELSE "tested", FALSE)
         ELSE \E sent2 \in BOOLEAN :
                Returns("test_auth_command", u, "error", ~sent2)
    /\ UNCHANGED <<user_states, channels, next_id, clock, tasks>>
    /\ UNCHANGED uvars
    /\ UNCHANGED dvars
    /\ UNCHANGED naming
    /\ UNCHANGED throttle
    /\ UNCHANGED served

\* /testapi (lines 599-669): two GET requests on a session of its own and
\* one report.
test_api_command(u) ==
    /\ returned = NoReturn
    /\ \E outcome \in {"reported", "timeout", "error"}, sent \in BOOLEAN :
         Returns("test_api_command", u, outcome, ~sent)
    /\ UNCHANGED <<user_states, channels, next_id, clock, tasks>>
    /\ UNCHANGED uvars
    /\ UNCHANGED dvars
    /\ UNCHANGED naming
    /\ UNCHANGED throttle
    /\ UNCHANGED served

remove_channel_command_clearing(u) ==
    /\ returned = NoReturn
    /\ user_states' = IF u \in DOMAIN user_states
                       THEN DelItem(user_states, u) ELSE user_states
    /\ tasks' = Detached(tasks, u)
    /\ Returns("remove_channel_command", u, "keyboard", FALSE)
    /\ UNCHANGED <<channels, next_id, clock>>
    /\ UNCHANGED uvars
    /\ UNCHANGED dvars
    /\ UNCHANGED naming
    /\ UNCHANGED throttle
    /\ UNCHANGED served

\* /rmchannel (lines 735-780): the user's rows are read and shown as a
\* keyboard of remove_<id> buttons with a Cancel button.
remove_channel_command(u) ==
    /\ returned = NoReturn
    /\ \E db \in {"ok", "down", "error"}, sent \in BOOLEAN :
         IF db = "down"
         THEN Returns("remove_channel_command", u, "db_down", ~sent)
         ELSE IF db = "error"
         THEN Returns("remove_channel_command", u, "error", ~sent)
         ELSE IF sent
         THEN Returns("remove_channel_command", u,
                      IF WhereUser(channels, u) = {}
                      THEN "no_channels" ELSE "keyboard", FALSE)
         ELSE \E sent2 \in BOOLEAN :
                Returns("remove_channel_command", u, "error", ~sent2)
    /\ UNCHANGED <<user_states, channels, next_id, clock, tasks>>
    /\ UNCHANGED uvars
    /\ UNCHANGED dvars
    /\ UNCHANGED naming
    /\ UNCHANGED throttle
    /\ UNCHANGED served

\* The handler that ended has returned to the dispatcher.
handler_returns ==
    /\ returned # NoReturn
    /\ returned' = NoReturn
    /\ UNCHANGED <<user_states, channels, next_id, clock, tasks>>
    /\ UNCHANGED uvars
    /\ UNCHANGED dvars
    /\ UNCHANGED naming
    /\ UNCHANGED throttle
    /\ UNCHANGED served


Next ==
    \/ \E u \in Users : add_channel_command(u)
    \/ \E u \in Users :
         \E t \in TextsAt(IF u \in DOMAIN user_states
                          THEN user_states[u].step ELSE "none") :
           handle_text_messages(u, t)
    \/ \E k \in 1..MaxTasks : password_after_authenticate(k)
    \/ \E k \in 1..MaxTasks : password_after_edit(k)
    \/ \E u \in Users : list_channels_command(u)
    \/ \E u \in Users : upload_command(u)
    \/ \E u \in Users, f \in Files : handle_video_upload(u, f)
    \/ \E u \in Users, data \in CancelData : cancel_callback(u, data)
    \/ \E u \in Users, channel_id \in 1..MaxId :
         handle_remove_callback(u, channel_id)
    \/ \E u \in Users, channel_id \in 1..MaxId :
         handle_upload_callback(u, channel_id)
    \/ \E k \in 1..MaxTasks : upload_after_download(k)
    \/ \E k \in 1..MaxTasks : upload_after_upload_video(k)
    \/ \E k \in 1..MaxTasks : upload_after_diagnostics(k)
    \/ handler_returns

Spec == Init /\ [][Next]_vars

\* Spec with the commands that only report.
NextInfo ==
    \/ Next
    \/ \E u \in Users : start_command(u)
    \/ \E u \in Users : help_command(u)
    \/ \E u \in Users : test_auth_command(u)
    \/ \E u \in Users : test_api_command(u)
    \/ \E u \in Users : remove_channel_command(u)

SpecInfo == Init /\ [][NextInfo]_vars

\* Two users share the bot.  Each sends the texts the wizard accepts and
\* one video; the handlers are those of Spec.
TwoUsers == {1, 2}

AcceptedBodiesAt(step) ==
    CASE step = "channel_name" -> {"a", "name50"}
      [] step \in {"api_key", "api_secret"} -> {"key10"}
      [] step = "username" -> {"u"}
      [] step = "password" -> {"p"}
      [] OTHER -> {"a"}

OneVideo == { f \in Files : f.file_id = "f1" }

\* Documents whose name or MIME type passes the check of lines 1036-1037:
\* an MPEG file, and a file sent as application/octet-stream.
OtherDocuments ==
    { [kind |-> "document", file_name |-> "clip.mpg", mime_type |-> "video/mpeg",
       file_size |-> Size(0, 1000), file_id |-> "f5"],
      [kind |-> "document", file_name |-> "raw.bin",
       mime_type |-> "application/octet-stream",
       file_size |-> Size(0, 1000), file_id |-> "f6"] }

RunFiles == OneVideo \cup OtherDocuments

\* The suffix of the temporary file: os.path.splitext(file_name)[1] or
\* '.mp4' (lines 1169-1170).
TempSuffix(file_name) ==
    IF splitext(file_name) = "" THEN ".mp4" ELSE splitext(file_name)

NextTwo ==
    \/ \E u \in TwoUsers : add_channel_command(u)
    \/ \E u \in TwoUsers :
         \E b \in AcceptedBodiesAt(IF u \in DOMAIN user_states
                                   THEN user_states[u].step ELSE "none") :
           handle_text_messages(u, Text(b, 0))
    \/ \E k \in 1..MaxTasks : password_after_authenticate(k)
    \/ \E k \in 1..MaxTasks : password_after_edit(k)
    \/ \E u \in TwoUsers : list_channels_command(u)
    \/ \E u \in TwoUsers : upload_command(u)
    \/ \E u \in TwoUsers, f \in OneVideo : handle_video_upload(u, f)
    \/ \E u \in TwoUsers, data \in CancelData : cancel_callback(u, data)
    \/ \E u \in TwoUsers, channel_id \in 1..MaxId :
         handle_remove_callback(u, channel_id)
    \/ \E u \in TwoUsers, channel_id \in 1..MaxId :
         handle_upload_callback(u, channel_id)
    \/ \E k \in 1..MaxTasks : upload_after_download(k)
    \/ \E k \in 1..MaxTasks : upload_after_upload_video(k)
    \/ \E k \in 1..MaxTasks : upload_after_diagnostics(k)
    \/ handler_returns

SpecTwo == Init /\ [][NextTwo]_vars

\* Two handlers of one user may be suspended at once.  The table holds a
\* channel saved earlier (the database outlives the process, user_states
\* does not), and the user goes through the upload flow.
RunSlots == 2

StoredRow ==
    Row(1, 1, [channel_name |-> "a", api_key |-> "key10",
               api_secret |-> "key10", username |-> "u", password |-> "p"],
        "t1", 1)

InitRuns ==
    /\ UInit /\ DInit /\ TInit /\ PInit /\ HInit
    /\ user_states = [u \in {} |-> None]
    /\ channels = {StoredRow}
    /\ next_id = 2
    /\ clock = 1
    /\ tasks = [k \in 1..RunSlots |-> Idle]
    /\ returned = NoReturn

NextRuns ==
    \/ \E u \in Users : upload_command(u)
    \/ \E u \in Users, f \in RunFiles : handle_video_upload(u, f)
    \/ \E u \in Users, data \in CancelData : cancel_callback(u, data)
    \/ \E u \in Users, channel_id \in 1..MaxId :
         handle_upload_callback(u, channel_id)
    \/ \E k \in 1..RunSlots : upload_after_download(k)
    \/ \E k \in 1..RunSlots : upload_after_upload_video(k)
    \/ \E k \in 1..RunSlots : upload_after_diagnostics(k)
    \/ handler_returns

SpecRuns == InitRuns /\ [][NextRuns]_vars

SpecUploader == Init /\ [][UNext]_vars

\* Every request gets an answer or ends in an exception: the session is
\* built with ClientTimeout(total=900) (line 134), and asyncio.sleep
\* returns.  So a step of a running call is eventually taken.
SpecUploaderLive ==
    /\ Init
    /\ [][UNext]_vars
    /\ WF_vars(authenticate_attempt)
    /\ WF_vars(get_upload_url)
    /\ WF_vars(upload_file_to_url)
    /\ WF_vars(create_video)

SpecDb == Init /\ [][DNext]_vars

SpecTitle == Init /\ [][TNext]_vars

SpecProgress == Init /\ [][PNext]_vars

SpecHealth == Init /\ [][HNext]_vars

\* ------------------------------------------------------------------------
\* Properties of DailymotionUploader (specification SpecUploader)
\* ------------------------------------------------------------------------

TokenIdx == { i \in 1..Len(net) : net[i].req = "token" }

\* A stage's request was answered with the value the stage needs.
AnsweredOk(i) ==
    /\ net[i].resp.kind = "http"
    /\ net[i].resp.status = 200
    /\ net[i].resp.body = "json"
    /\ net[i].resp.access # None

Rank(req) ==
    CASE req \in {"token", "sleep"} -> 1
      [] req = "slot" -> 2
      [] req = "file" -> 3
      [] req = "video" -> 4

Before(stage) ==
    CASE stage = "slot" -> "token"
      [] stage = "file" -> "slot"
      [] stage = "video" -> "file"

\* C6: a 401 answer to the upload-slot request or to the registration
\* request is followed by exactly one re-authentication; if that succeeds
\* the same request is made again, and if it fails nothing more is sent.
C6_ReauthenticatesOnceOn401 ==
    (call = "upload_video" /\ upc = "done") =>
      \A i \in 1..Len(net) :
        (net[i].req \in {"slot", "video"} /\ net[i].resp.kind = "http"
           /\ net[i].resp.status = 401) =>
          /\ i < Len(net)
          /\ net[i + 1].req = "token"
          /\ \A j \in (i + 1)..Len(net) :
               (net[j].req = "token" /\ AnsweredOk(j)) =>
                  (j < Len(net) /\ net[j + 1].req = net[i].req)

\* C7: within one upload_video call the requests are made in the order
\* token, slot, file, video; a stage's request is made only after the stage
\* before it was answered with success; a failed stage ends the call with
\* None and nothing after it; a URL is returned only after the registration
\* succeeded.
C7_StagesInOrder ==
    call = "upload_video" =>
      /\ \A i, j \in 1..Len(net) :
           i < j => /\ Rank(net[i].req) <= Rank(net[j].req)
                    /\ Rank(net[i].req) >= 2 =>
                         Rank(net[i].req) < Rank(net[j].req)
      /\ \A i \in 1..Len(net) :
           net[i].req \in {"slot", "file", "video"} =>
             /\ \E j \in 1..(i - 1) :
                  net[j].req = Before(net[i].req) /\ AnsweredOk(j)
             /\ ~AnsweredOk(i) => (i = Len(net) /\ upc = "done" /\ ret = None)
      /\ auth_ret = "False" =>
           (upc = "done" /\ ret = None /\ \A i \in 1..Len(net) : Rank(net[i].req) = 1)
      /\ ret # None =>
           /\ upc = "done"
           /\ Len(net) > 0
           /\ net[Len(net)].req = "video"
           /\ AnsweredOk(Len(net))
           /\ ret = "https://www.dailymotion.com/video/" \o net[Len(net)].resp.access

\* An upload_video call went through all four stages, the token request
\* having failed once first.
C7_Witness ==
    /\ call = "upload_video"
    /\ upc = "done"
    /\ ret # None
    /\ Len(net) >= 5

\* C8: one authenticate() call makes at most 3 token requests; it returns
\* True at the first request answered 200 with an access token and makes no
\* request after it; it returns False only after 3 requests that all failed.
C8_AtMostThreeAttempts ==
    /\ Cardinality(TokenIdx) <= 3
    /\ \A i \in TokenIdx :
         AnsweredOk(i) => /\ auth_ret = "True"
                          /\ \A j \in TokenIdx : j <= i
    /\ auth_ret = "True" => \E i \in TokenIdx : AnsweredOk(i)
    /\ auth_ret = "False" =>
         /\ Cardinality(TokenIdx) = 3
         /\ \A i \in TokenIdx : ~AnsweredOk(i)

\* authenticate() returned True at its second attempt.
C8_WitnessSecondAttempt ==
    /\ call = "authenticate"
    /\ upc = "done"
    /\ auth_ret = "True"
    /\ Cardinality(TokenIdx) = 2

\* C9: every failed token request that is followed by another one is
\* followed first by a sleep of 2^k seconds, k the number of requests made
\* before it (1 s, then 2 s), whatever the kind of failure; no sleep
\* follows the last attempt.
C9_BackoffBetweenAttempts ==
    /\ \A i \in TokenIdx :
         (\E j \in TokenIdx : j > i) =>
           /\ net[i + 1].req = "sleep"
           /\ net[i + 1].delay = Pow2(Cardinality({ k \in TokenIdx : k < i }))
    /\ upc # "auth" => \A i \in 1..Len(net) :
         net[i].req = "sleep" => (i < Len(net) /\ net[i + 1].req = "token")

\* C10: when authenticate() returns False on an uploader that held no
\* token, access_token and refresh_token are both still None.
C10_NoTokenCachedOnFailure ==
    (auth_ret = "False" /\ tok0 = <<None, None>>) =>
      (access_token = None /\ refresh_token = None)

\* A stage's request failed in passing: a status other than 200 and 401,
\* or a transport error.
TransientFailure(i) ==
    \/ net[i].resp.kind = "error"
    \/ net[i].resp.kind = "http" /\ net[i].resp.status \notin {200, 401}

\* C11: in an upload_video call that has ended, every slot, file or video
\* request that failed in passing and was not the third of its stage is
\* followed by a sleep and then by the same request again; no stage makes
\* more than 3 requests.
C11_StageRetriedOnTransientFailure ==
    (call = "upload_video" /\ upc = "done") =>
      \A i \in 1..Len(net) :
        net[i].req \in {"slot", "file", "video"} =>
          /\ Cardinality({ j \in 1..i : net[j].req = net[i].req }) <= 3
          /\ (TransientFailure(i)
                /\ Cardinality({ j \in 1..i : net[j].req = net[i].req }) < 3) =>
               /\ i + 2 <= Len(net)
               /\ net[i + 1].req = "sleep"
               /\ net[i + 2].req = net[i].req

\* C12: when an operation on an uploader has completed (authenticate() for
\* the wizard or /testauth, upload_video, the diagnostics after it), the
\* uploader holds no open session.
C12_SessionClosedWhenDone ==
    upc = "done" => session # "open"

\* C13: when validate_video_file rejects the file, upload_video has
\* returned None at once and has made no request: no token, slot, file or
\* video request.
C13_InvalidFileNoNetworkCall ==
    (call = "upload_video" /\ validation[1] = "False") =>
      /\ upc = "done"
      /\ ret = None
      /\ net = <<>>
      /\ auth_ret = None

\* upload_video was given a file validate_video_file rejects.
C13_WitnessRejected ==
    /\ call = "upload_video"
    /\ validation[1] = "False"
    /\ file_path.there
    /\ upc = "done"

\* C14: validate_video_file rejects a missing file, a file of size 0, a
\* file of 4 GiB + 1 byte and a file whose extension is not in the list of
\* line 105, and accepts every file that is there, not empty, of at most
\* 4 GiB (4 GiB itself included) and has an extension of the list.
C14_ValidateVideoFile ==
    call = "upload_video" =>
      /\ ~file_path.there => validation = <<"False", "File does not exist">>
      /\ (file_path.there /\ file_path.size = Size(0, 0)) =>
           validation = <<"False", "File is empty">>
      /\ (file_path.there /\ file_path.size = Size(4, 1)) =>
           validation = <<"False", "File too large">>
      /\ (file_path.there /\ file_path.size = Size(0, 1000)
            /\ file_path.ext \in {".txt", ".mpg", ""}) =>
           validation = <<"False", "Unsupported format">>
      /\ (file_path.there
            /\ file_path.size \in {Size(0, 1000), Size(4, 0)}
            /\ lower(file_path.ext) \in valid_extensions) =>
           validation = <<"True", "Valid">>

\* ------------------------------------------------------------------------
\* Properties of the handlers (specification Spec)
\* ------------------------------------------------------------------------

\* The password step of handle_text_messages has ended in one of its
\* terminal outcomes (it called authenticate() and went on from its answer).
PasswordStepEnded ==
    /\ returned.handler = "handle_text_messages"
    /\ returned.outcome \in {"saved", "saved_db_error", "auth_failed",
                             "already_exists", "db_error", "db_down"}

\* C1: the password step inserts a row only after authenticate() succeeded
\* for the credentials the row holds; when authenticate() failed, the
\* handler has written no row and the user's entry is deleted when it ends.
C1_InsertOnlyAfterAuthentication ==
    /\ (returned.handler = "handle_text_messages" /\ returned.inserted) =>
         /\ returned.row.access_token # None
         /\ returned.row.api_key = returned.cred["api_key"]
         /\ returned.row.api_secret = returned.cred["api_secret"]
         /\ returned.row.username = returned.cred["username"]
         /\ returned.row.password = returned.cred["password"]
    /\ (returned.handler = "handle_text_messages"
          /\ returned.outcome = "auth_failed") =>
         /\ ~returned.inserted
         /\ returned.user \notin DOMAIN user_states

\* C2: channels never holds two rows with the same user_id and
\* channel_name; a wizard run that ends at a name the user already has
\* leaves the table as it was before its INSERT, the row it tried to write
\* is not in it, the row that has the name is still there, and the outcome
\* is "already exists", which no other failure of the INSERT produces.
C2_UniqueChannelNames ==
    /\ \A r1, r2 \in channels :
         (r1.user_id = r2.user_id /\ r1.channel_name = r2.channel_name) =>
           r1 = r2
    /\ returned.outcome = "already_exists" =>
         /\ channels = returned.channels0
         /\ returned.row \notin channels
         /\ ~returned.inserted
         /\ \E r \in channels :
              /\ r.user_id = returned.row.user_id
              /\ r.channel_name = returned.row.channel_name
    /\ (returned.handler = "handle_text_messages" /\ returned.inserted) =>
         returned.outcome \in {"saved", "saved_db_error"}

\* The wizard was completed with a name the user already has.
C2_WitnessDuplicate ==
    /\ returned.outcome = "already_exists"
    /\ Cardinality(channels) = 1

\* C3: when handle_upload_callback has ended, the temporary file it created
\* does not exist.
C3_TempFileDeleted ==
    returned.handler = "handle_upload_callback" => ~exists(returned.tmp)

\* C4: when handle_upload_callback has ended, on whichever path,
\* user_states has no entry for the user.
C4_UploadCallbackClearsState ==
    returned.handler = "handle_upload_callback" =>
      returned.user \notin DOMAIN user_states

\* C5: when the password step has ended in a terminal outcome (saved,
\* authentication failed, name already exists, storage error, no database
\* connection), user_states has no entry for the user.
C5_WizardStateDeleted ==
    PasswordStepEnded => returned.user \notin DOMAIN user_states

\* handle_text_messages has just ended for a message of user u that it
\* received at the wizard step st.
TextHandledAt(u, st) ==
    /\ returned'.handler = "handle_text_messages"
    /\ returned'.text # NoText
    /\ returned'.user = u
    /\ u \in DOMAIN user_states
    /\ user_states[u].step = st

\* The rule of a wizard step, on the length n of the trimmed text.
StepRule(st, n) ==
    CASE st = "channel_name" -> n >= 1 /\ n <= 50
      [] st \in {"api_key", "api_secret"} -> n >= 10
      [] st \in {"username", "password"} -> n >= 1

\* C15: a message received at step channel_name is accepted exactly when
\* the length of its text without the surrounding whitespace is between 1
\* and 50: then the name is recorded and the step becomes api_key;
\* otherwise the message is rejected and the entry stays as it was.
C15_ChannelNameLength ==
    [][\A u \in Users :
         TextHandledAt(u, "channel_name") =>
           LET n == len(returned'.text.body)
           IN  IF n >= 1 /\ n <= 50
               THEN /\ returned'.outcome = "accepted"
                    /\ user_states'[u].step = "api_key"
                    /\ user_states'[u].data =
                         SetItem(EmptyData, "channel_name", returned'.text.body)
               ELSE /\ returned'.outcome = "rejected"
                    /\ user_states' = user_states]_vars

\* A name of 50 characters, sent with whitespace around it, was accepted.
C15_WitnessFifty ==
    /\ returned.handler = "handle_text_messages"
    /\ returned.outcome = "accepted"
    /\ returned.text = Text("name50", 1)
    /\ user_states[returned.user].step = "api_key"

\* C16: a message that violates the rule of the wizard step it arrives at
\* is rejected and changes neither user_states nor the channels table, and
\* starts nothing; a message that satisfies the rule is accepted, its text
\* is recorded under the step's key, and every step but password hands
\* over to the next one.
C16_InvalidInputChangesNothing ==
    [][\A u \in Users : \A st \in WizardSteps :
         TextHandledAt(u, st) =>
           IF ~StepRule(st, len(returned'.text.body))
           THEN /\ returned'.outcome = "rejected"
                /\ UNCHANGED <<user_states, channels, next_id, tasks>>
           ELSE /\ returned'.outcome \in {"accepted", "testing"}
                /\ UNCHANGED <<channels, next_id>>
                /\ user_states'[u].data =
                     SetItem(user_states[u].data, st, returned'.text.body)
                /\ user_states'[u].step =
                     IF st = "password" THEN "password" ELSE NextStep(st)]_vars

\* An API secret of 9 characters was rejected.
C16_WitnessRejected ==
    /\ returned.handler = "handle_text_messages"
    /\ returned.outcome = "rejected"
    /\ returned.text.body = "key9"
    /\ user_states[returned.user].step = "api_secret"

\* The place of a wizard step in the order of the steps.
StepIndex(st) ==
    CASE st = "channel_name" -> 1
      [] st = "api_key" -> 2
      [] st = "api_secret" -> 3
      [] st = "username" -> 4
      [] st = "password" -> 5

\* C17: the wizard step of a user changes only to the step that follows
\* it, in a handle_text_messages run that accepted a message, or back to
\* channel_name by /addchannel, which starts a new run with empty data; an
\* entry enters the wizard only at channel_name; and a credential
\* verification is started only by a message received at step password.
C17_StepsInOrder ==
    [][\A u \in Users :
         /\ (u \in DOMAIN user_states' /\ user_states'[u].step \in WizardSteps
               /\ (u \notin DOMAIN user_states
                     \/ user_states[u].step # user_states'[u].step)) =>
              \/ /\ returned'.handler = "add_channel_command"
                 /\ user_states'[u] = [step |-> "channel_name",
                                      data |-> EmptyData]
              \/ /\ returned'.handler = "handle_text_messages"
                 /\ returned'.outcome = "accepted"
                 /\ u \in DOMAIN user_states
                 /\ user_states[u].step \in WizardSteps
                 /\ StepIndex(user_states'[u].step) =
                      StepIndex(user_states[u].step) + 1
         /\ \A k \in 1..MaxTasks :
              (tasks'[k].kind = "password" /\ tasks[k].kind # "password"
                 /\ tasks'[k].user = u) =>
                /\ u \in DOMAIN user_states
                /\ user_states[u].step = "password"
                /\ DOMAIN tasks'[k].cred = WizardSteps]_vars

\* The wizard has reached step password with the four earlier values.
C17_WitnessPassword ==
    /\ returned.handler = "handle_text_messages"
    /\ returned.outcome = "accepted"
    /\ user_states[returned.user].step = "password"
    /\ DOMAIN user_states[returned.user].data =
         {"channel_name", "api_key", "api_secret", "username"}

\* The entry of user u is not one the message is for: there is none, or
\* its step is not among `steps`.
NotAwaited(u, steps) ==
    u \notin DOMAIN user_states \/ user_states[u].step \notin steps

\* C18: a text message from a user with no entry or with an upload-flow
\* step, and a file from a user with no entry or with a step other than
\* waiting_video, end the handler at once: user_states, the channels table
\* and the suspended handlers are as before, so nothing was started.
C18_UnmatchedMessageIgnored ==
    [][\A u \in Users :
         /\ (returned'.handler = "handle_text_messages"
               /\ returned'.text # NoText /\ returned'.user = u
               /\ NotAwaited(u, WizardSteps)) =>
              /\ returned'.outcome \in {"no_state", "other_step"}
              /\ ~returned'.raised
              /\ UNCHANGED <<user_states, channels, next_id, tasks>>
         /\ (returned'.handler = "handle_video_upload" /\ returned'.user = u
               /\ NotAwaited(u, {"waiting_video"})) =>
              /\ returned'.outcome \in {"no_state", "other_step"}
              /\ ~returned'.raised
              /\ UNCHANGED <<user_states, channels, next_id, tasks>>
         /\ \A k \in 1..MaxTasks :
              (tasks[k].kind = "idle" /\ tasks'[k].kind # "idle"
                 /\ tasks'[k].user = u) =>
                /\ u \in DOMAIN user_states
                /\ user_states[u].step \in {"password", "select_channel"}]_vars

\* A file arrived while the user was at the wizard's password step.
C18_WitnessFileDuringWizard ==
    /\ returned.handler = "handle_video_upload"
    /\ returned.outcome = "other_step"
    /\ user_states[returned.user].step = "password"

\* The attachment passes the checks of size and type: at most 4 GiB, and a
\* video message, a name with a video extension or a video MIME type.
PassesChecks(f) ==
    /\ f.file_size.gib < 4 \/ f.file_size = Size(4, 0)
    /\ \/ f.kind = "video"
       \/ f.file_name = "clip.mp4"
       \/ f.mime_type = "video/mp4"

\* What the code does with a file received at step waiting_video: the entry
\* moves to select_channel, holding the file and its name, only if the file
\* passes the checks and the user has a channel; a file that fails a check
\* leaves the entry as it was; with no channel the entry is deleted exactly
\* when the "no channels" reply was delivered, and stays at waiting_video
\* when the database or that reply failed.
FileMovesOnlyWhenAccepted ==
    [][\A u \in Users :
         (returned'.handler = "handle_video_upload" /\ returned'.user = u
            /\ ~NotAwaited(u, {"waiting_video"})) =>
           LET f == returned'.file
               mine == { r \in channels : r.user_id = u }
               moved == /\ u \in DOMAIN user_states'
                        /\ user_states'[u].step = "select_channel"
           IN  /\ channels' = channels
               /\ moved =>
                    /\ PassesChecks(f)
                    /\ mine # {}
                    /\ user_states'[u].file_info = f
                    /\ user_states'[u].file_name = FileName(f)
               /\ ~moved =>
                    \/ u \notin DOMAIN user_states'
                    \/ user_states'[u] = user_states[u]
               /\ returned'.outcome = "select_channel" => moved
               /\ ~PassesChecks(f) =>
                    /\ user_states' = user_states
                    /\ returned'.outcome \in {"too_large", "invalid_type"}
               /\ (PassesChecks(f) /\ mine = {}) =>
                    /\ returned'.outcome \in {"no_channels", "db_down", "error"}
                    /\ returned'.outcome = "no_channels" <=>
                         u \notin DOMAIN user_states'
               /\ (PassesChecks(f) /\ mine # {}) =>
                    /\ u \in DOMAIN user_states'
                    /\ returned'.outcome \in {"select_channel", "db_down", "error"}
      ]_vars

\* C19: a file received at step waiting_video moves the entry to
\* select_channel, holding the file and its name, only if the file passes
\* the checks of size and type and the user has a channel; when the user
\* has no channel and the database answered, the entry is deleted; when a
\* check fails the entry stays at waiting_video.
C19_NoChannelDeletesState ==
    [][\A u \in Users :
         (returned'.handler = "handle_video_upload" /\ returned'.user = u
            /\ ~NotAwaited(u, {"waiting_video"})) =>
           LET f == returned'.file
               mine == { r \in channels : r.user_id = u }
               moved == /\ u \in DOMAIN user_states'
                        /\ user_states'[u].step = "select_channel"
           IN  /\ moved =>
                    /\ PassesChecks(f)
                    /\ mine # {}
                    /\ user_states'[u].file_info = f
                    /\ user_states'[u].file_name = FileName(f)
               /\ ~PassesChecks(f) =>
                    user_states'[u].step = "waiting_video"
               /\ (PassesChecks(f) /\ mine = {}
                     /\ returned'.outcome # "db_down") =>
                    u \notin DOMAIN user_states'
      ]_vars

\* C20: /upload by a user who has no channel leaves user_states and the
\* channels table as they were: it creates no entry, and an entry the user
\* already had stays.
C20_UploadWithoutChannelKeepsState ==
    [][\A u \in Users :
         (returned'.handler = "upload_command" /\ returned'.user = u
            /\ { r \in channels : r.user_id = u } = {}) =>
           /\ returned'.outcome \in {"no_channels", "db_down", "error"}
           /\ UNCHANGED <<user_states, channels, next_id, tasks>>]_vars

\* /upload was answered "no channels" while the user had a wizard entry.
C20_WitnessNoChannel ==
    /\ returned.handler = "upload_command"
    /\ returned.outcome = "no_channels"
    /\ returned.user \in DOMAIN user_states
    /\ user_states[returned.user].step = "api_key"

\* C20 as stated: after /upload by a user who has no channel has ended, the
\* user has no entry with step waiting_video.
C20_NoWaitingVideoAfterwards ==
    (returned.handler = "upload_command"
       /\ { r \in channels : r.user_id = returned.user } = {}) =>
      ~(/\ returned.user \in DOMAIN user_states
        /\ user_states[returned.user].step = "waiting_video")

\* C21: /addchannel leaves the user's entry exactly at step channel_name
\* with empty data, and /upload that starts the flow leaves it exactly at
\* step waiting_video, whatever the entry was before; /upload changes the
\* entry in no other way, and neither command touches another user's entry.
C21_FlowStartReplacesState ==
    [][\A u \in Users :
         /\ (returned'.handler = "add_channel_command" /\ returned'.user = u) =>
              /\ u \in DOMAIN user_states'
              /\ user_states'[u] = [step |-> "channel_name", data |-> EmptyData]
         /\ (returned'.handler = "upload_command" /\ returned'.user = u) =>
              /\ returned'.outcome = "waiting_video" =>
                   /\ { r \in channels : r.user_id = u } # {}
                   /\ u \in DOMAIN user_states'
                   /\ user_states'[u] = [step |-> "waiting_video"]
              /\ \/ user_states' = user_states
                 \/ /\ { r \in channels : r.user_id = u } # {}
                    /\ u \in DOMAIN user_states'
                    /\ user_states'[u] = [step |-> "waiting_video"]
         /\ (returned'.handler \in {"add_channel_command", "upload_command"}
               /\ returned'.user = u) =>
              \A v \in DOMAIN user_states \ {u} :
                 v \in DOMAIN user_states' /\ user_states'[v] = user_states[v]
      ]_vars

\* /upload started the flow while the wizard's password step of the same
\* user was still waiting for authenticate().
C21_WitnessWizardReplaced ==
    /\ returned.handler = "upload_command"
    /\ returned.outcome = "waiting_video"
    /\ \E k \in 1..MaxTasks :
         tasks[k].kind # "idle" /\ tasks[k].user = returned.user
    /\ user_states[returned.user] = [step |-> "waiting_video"]

\* What the code does when download_media, upload_video or the diagnostics
\* are cancelled (lines 1286-1306): the temporary file is gone and the
\* channels table is as before; the user's entry is deleted when the
\* "Upload Cancelled" report was delivered, and kept when that report raised.
CancelledRunCleansUp ==
    [][(returned'.handler = "handle_upload_callback"
          /\ returned'.cause = "cancelled") =>
         /\ ~exists(returned'.tmp)
         /\ channels' = channels
         /\ returned'.outcome \in {"cancelled", "critical_error"}
         /\ returned'.outcome = "cancelled" =>
              returned'.user \notin DOMAIN user_states'
         /\ returned'.outcome = "critical_error" =>
              user_states' = user_states
      ]_vars

\* C22: when the download or the upload of a run was cancelled, the handler
\* ends with the temporary file removed, the user's entry deleted and the
\* channels table as it was.
C22_CancelledRunClearsState ==
    [][(returned'.handler = "handle_upload_callback"
          /\ returned'.cause = "cancelled") =>
         /\ ~exists(returned'.tmp)
         /\ channels' = channels
         /\ returned'.user \notin DOMAIN user_states'
      ]_vars

\* C23: while get_upload_error_details runs, the temporary file it
\* validates still exists.
C23_DiagnosticsValidateExistingFile ==
    \A k \in 1..MaxTasks :
       tasks[k].pc = "get_upload_error_details" => exists(tasks[k].tmp)

\* C28: no handler the dispatcher calls ends by raising: whichever call
\* fails inside it, the handler ends in a reported failure.
C28_NoExceptionEscapes ==
    returned.handler \in {"add_channel_command", "handle_text_messages",
                          "list_channels_command", "upload_command",
                          "handle_video_upload", "handle_callback_query"} =>
      ~returned.raised

\* ------------------------------------------------------------------------
\* Properties of the bot with two users (specification SpecTwo)
\* ------------------------------------------------------------------------

\* C24: what /list shows is, row for row, the channels whose user_id is the
\* requesting user's and no other row, the later created before the
\* earlier created.
C24_ListShowsOwnChannelsNewestFirst ==
    (returned.handler = "list_channels_command"
       /\ returned.outcome \in {"listed", "no_channels"}) =>
      LET q == returned.listing
          mine == { r \in channels : r.user_id = returned.user }
      IN  /\ Len(q) = Cardinality(mine)
          /\ { q[i] : i \in 1..Len(q) } =
               { [channel_name |-> r.channel_name, username |-> r.username,
                  created_at |-> r.created_at] : r \in mine }
          /\ \A i, j \in 1..Len(q) :
               i < j => q[i].created_at > q[j].created_at
          /\ returned.outcome = "no_channels" <=> mine = {}

\* /list showed one channel while the other user had one too.
C24_WitnessOtherUsersRow ==
    /\ returned.handler = "list_channels_command"
    /\ returned.outcome = "listed"
    /\ Len(returned.listing) = 1
    /\ \E r \in channels : r.user_id # returned.user

C26_UploadUsesOwnChannelOnly ==
    [][/\ returned'.handler = "handle_upload_callback"
            /\ returned'.cause = "none" =>
            LET own == { r \in channels :
                           r.id = returned'.channel_id
                             /\ r.user_id = returned'.user }
            IN  own = {} =>
                  /\ returned'.outcome \in
                       {"not_found", "db_down", "critical_error"}
                  /\ UNCHANGED <<user_states, channels, tasks>>
       /\ \A k \in DOMAIN tasks :
            (tasks[k].kind = "idle" /\ tasks'[k].kind = "upload") =>
              /\ tasks'[k].channel \in channels
              /\ tasks'[k].channel.user_id = tasks'[k].user
              /\ tasks'[k].pc = "download_media"
      ]_vars

\* An upload callback carried the id of the other user's channel while the
\* caller was at step select_channel.
C26_WitnessForeignId ==
    /\ returned.handler = "handle_upload_callback"
    /\ returned.outcome = "not_found"
    /\ returned.user \in DOMAIN user_states
    /\ user_states[returned.user].step = "select_channel"
    /\ \E r \in channels :
         r.id = returned.channel_id /\ r.user_id # returned.user

\* The step is one of a handler of user a: a handler of a ended in it, or
\* a suspended handler of a started, went on or ended.
HandledFor(a) ==
    \/ returned' # NoReturn /\ returned'.user = a
    \/ \E k \in DOMAIN tasks :
         /\ tasks'[k] # tasks[k]
         /\ a \in {tasks[k].user, tasks'[k].user}
         /\ returned' = NoReturn

CallLog(n) ==
    LET failed == [ev |-> "connect", answer |-> "OperationalError", secs |-> 0]
        ok == [ev |-> "connect", answer |-> "conn", secs |-> 0]
        slept(t) == [ev |-> "sleep", answer |-> "None", secs |-> t]
    IN  CASE n = 1 -> <<ok>>
          [] n = 2 -> <<failed, slept(1), ok>>
          [] n = 3 -> <<failed, slept(1), failed, slept(2), ok>>
          [] n = 4 -> <<failed, slept(1), failed, slept(2), failed>>

\* C27: a call of get_db_connection that has ended made at most 3 connects;
\* it returned the connection of the first connect that succeeded, after a
\* sleep of 1 s behind the first failure and of 2 s behind the second; it
\* returned None exactly when 3 connects failed, with no sleep behind the
\* third; a call still running has done a part of one of these.
C27_ThreeAttemptsWithBackoff ==
    /\ Len(db_ret) <= Len(db_log)
    /\ \A c \in 1..Len(db_ret) :
         /\ db_ret[c] \in {"conn", "None"}
         /\ db_ret[c] = "conn" => db_log[c] \in {CallLog(1), CallLog(2), CallLog(3)}
         /\ db_ret[c] = "None" => db_log[c] = CallLog(4)
    /\ \A c \in 1..Len(db_log) :
         /\ Cardinality({ i \in 1..Len(db_log[c]) :
                            db_log[c][i].ev = "connect" }) <= 3
         /\ c > Len(db_ret) =>
              /\ db_attempt \in 0..2
              /\ db_log[c] = SubSeq(CallLog(4), 1, 2 * db_attempt)

\* A call returned None after three failed connects, and a later call
\* connected at its second attempt.
C27_WitnessNoneThenRetry ==
    /\ Len(db_ret) >= 2
    /\ db_ret[1] = "None"
    /\ db_ret[2] = "conn"
    /\ Len(db_log[2]) = 3

\* ------------------------------------------------------------------------
\* Properties of the title and the description (specification SpecTitle)
\* ------------------------------------------------------------------------

\* Characters of the string that are no white space.
Solid(s) == { i \in 1..Len(s) : s[i].c # " " /\ s[i].n > 0 }

\* C29: the title passed to upload_video holds a character that is no
\* white space and is at most 150 characters long, and the title and the
\* description of the registration request are at most 150 and 2000
\* characters long.
C29_TitleAndDescriptionLengths ==
    /\ naming.pc \in {"upload_video", "create_video"} =>
         /\ Solid(naming.title) # {}
         /\ StrLen(naming.title) <= 150
    /\ naming.pc = "create_video" =>
         /\ StrLen(naming.data_title) <= 150
         /\ StrLen(naming.data_description) <= 2000
         /\ naming.data_title = naming.title

\* A name of 1900 underscores and 149 letters: the derived title was cut
\* to 150 characters and the description to 2000.
C29_WitnessTruncated ==
    /\ naming.pc = "create_video"
    /\ StrLen(naming.file_name) > 2000
    /\ StrLen(naming.title) = 150
    /\ StrLen(naming.description) > 2000
    /\ StrLen(naming.data_description) = 2000

\* ------------------------------------------------------------------------
\* Handlers that end while the user's entry is a newer one
\* (specification Spec)
\* ------------------------------------------------------------------------

\* The handler in slot k is suspended and the entry of its user is not the
\* one it started from: /addchannel or /upload has put a new one there.
HoldsNewerState(k) ==
    /\ tasks[k].kind # "idle"
    /\ ~tasks[k].aliased
    /\ tasks[k].user \in DOMAIN user_states

\* C31: a handler that ends after /addchannel or /upload of the same user
\* has created a newer state leaves that state present and unmodified.
C31_FinishingHandlerKeepsNewerState ==
    [][\A k \in 1..MaxTasks :
         (HoldsNewerState(k) /\ tasks'[k].kind = "idle")
           => /\ tasks[k].user \in DOMAIN user_states'
              /\ user_states'[tasks[k].user] = user_states[tasks[k].user]]_vars

\* ------------------------------------------------------------------------
\* Two presses of a channel button (specification SpecRuns)
\* ------------------------------------------------------------------------

\* The run in slot k started from the entry the user has now, that is from
\* the file that entry holds.
RunOfCurrentFile(k) ==
    /\ tasks[k].kind = "upload"
    /\ tasks[k].aliased
    /\ tasks[k].user \in DOMAIN user_states

\* C32: at most one download/upload run exists for a received file.
C32_OneRunPerFile ==
    \A j, k \in DOMAIN tasks :
       (RunOfCurrentFile(j) /\ RunOfCurrentFile(k)
          /\ tasks[j].user = tasks[k].user) => j = k

\* ------------------------------------------------------------------------
\* The shape of the entries of user_states (specification Spec)
\* ------------------------------------------------------------------------

\* The keys state["data"] holds when the wizard reaches a step.
FieldsBefore(step) ==
    CASE step = "channel_name" -> {}
      [] step = "api_key" -> {"channel_name"}
      [] step = "api_secret" -> {"channel_name", "api_key"}
      [] step = "username" -> {"channel_name", "api_key", "api_secret"}
      [] step = "password" ->
           {"channel_name", "api_key", "api_secret", "username"}

\* Every value of state["data"] passed the check of its step.
HoldsAcceptedValues(data) == \A f \in DOMAIN data : Accepts(f, data[f])

\* An entry of the upload flow: waiting_video holds the step alone,
\* select_channel holds file_info and file_name as well.
UploadStateWellFormed(st) ==
    \/ st.step = "waiting_video" /\ DOMAIN st = {"step"}
    \/ /\ st.step = "select_channel"
       /\ {"file_info", "file_name"} \subseteq DOMAIN st

\* An entry of the wizard whose data holds exactly the fields of the
\* earlier steps.
WizardStateExact(st) ==
    /\ st.step \in WizardSteps
    /\ DOMAIN st = {"step", "data"}
    /\ DOMAIN st.data = FieldsBefore(st.step)
    /\ HoldsAcceptedValues(st.data)

\* An entry at step password whose password has been received: the
\* handler stores it before it awaits the verification, and the step stays
\* password until the entry is deleted.
PasswordReceived(st) ==
    /\ st.step = "password"
    /\ DOMAIN st = {"step", "data"}
    /\ DOMAIN st.data = FieldsBefore("password") \cup {"password"}
    /\ HoldsAcceptedValues(st.data)

\* C33: every entry of user_states is well-formed for its step: a wizard
\* entry holds the fields accepted in the earlier steps, and at step
\* password also the password once it was received; a waiting_video entry
\* holds no file and a select_channel entry holds file_info and file_name.
C33_StatesWellFormed ==
    \A u \in DOMAIN user_states :
       \/ WizardStateExact(user_states[u])
       \/ PasswordReceived(user_states[u])
       \/ UploadStateWellFormed(user_states[u])

\* An entry at step password holds the password while its verification is
\* awaited.
C33_WitnessPasswordStored ==
    \E u \in DOMAIN user_states, k \in DOMAIN tasks :
       /\ PasswordReceived(user_states[u])
       /\ tasks[k].kind = "password"
       /\ tasks[k].user = u

\* C33 as stated: at every wizard step the data holds exactly the fields
\* of the earlier steps.
C33_ExactlyEarlierFields ==
    \A u \in DOMAIN user_states :
       \/ WizardStateExact(user_states[u])
       \/ UploadStateWellFormed(user_states[u])

\* ------------------------------------------------------------------------
\* The two checks of the file type (specification SpecRuns)
\* ------------------------------------------------------------------------

\* validate_video_file does not reject a path with this extension for its
\* format (lines 105-113).
FormatAccepted(ext) ==
    /\ lower(ext) \in valid_extensions
    /\ guess_type(ext) # None => StartsWithVideo(guess_type(ext))

\* C34: the temporary file of every run, named after a file that
\* handle_video_upload admitted, has an extension validate_video_file
\* accepts.
C34_AdmittedFilesPassValidation ==
    \A k \in DOMAIN tasks :
       tasks[k].kind = "upload"
         => FormatAccepted(TempSuffix(tasks[k].file_name))

\* ------------------------------------------------------------------------
\* The percentages of upload_video (specification SpecUploader)
\* ------------------------------------------------------------------------

StrictlyIncreasing(q) == \A i, j \in 1..Len(q) : i < j => q[i] < q[j]

\* The percentages of a call that goes through every stage.
Milestones == <<5, 15, 20, 26, 38, 50, 68, 85, 100>>

\* C35: the percentages one upload_video call passes to its progress
\* callback are strictly increasing, lie in 0..100 and are the first
\* milestones in their order; 100 is among them exactly when the call has
\* returned a URL.
C35_ProgressIncreasesTo100 ==
    call = "upload_video" =>
       /\ StrictlyIncreasing(progress)
       /\ \A i \in 1..Len(progress) : progress[i] \in 0..100
       /\ Len(progress) <= Len(Milestones)
       /\ \A i \in 1..Len(progress) : progress[i] = Milestones[i]
       /\ (\E i \in 1..Len(progress) : progress[i] = 100)
            <=> (upc = "done" /\ ret # None)

\* A call that returned a URL after reporting every milestone.
C35_WitnessAllMilestones ==
    /\ call = "upload_video"
    /\ upc = "done"
    /\ ret # None
    /\ progress = Milestones

\* ------------------------------------------------------------------------
\* Termination of upload_video (specification SpecUploaderLive)
\* ------------------------------------------------------------------------

\* The requests of kind req the running call has made.
RequestsOf(req) == Cardinality({ i \in 1..Len(net) : net[i].req = req })

UploadVideoEnded == call = "upload_video" /\ upc = "done"

\* C36: an upload_video call makes at most three token requests and one
\* request of each other kind, and it ends, with a URL or with None,
\* whatever the provider answers.
C36_UploadVideoTerminates ==
    /\ [](call = "upload_video" =>
            /\ RequestsOf("token") <= 3
            /\ RequestsOf("slot") <= 1
            /\ RequestsOf("file") <= 1
            /\ RequestsOf("video") <= 1)
    /\ (call = "upload_video") ~> UploadVideoEnded

\* A call that ended after the largest number of requests: three token
\* requests and one of each other kind.
C36_WitnessSixRequests ==
    /\ UploadVideoEnded
    /\ RequestsOf("token") = 3
    /\ RequestsOf("slot") = 1
    /\ RequestsOf("file") = 1
    /\ RequestsOf("video") = 1

\* ------------------------------------------------------------------------
\* Throttling of the progress edits (specification SpecProgress)
\* ------------------------------------------------------------------------

\* C37: whether a tick edits the status message depends only on the
\* earlier ticks of its own run.
C37_ThrottleScopedToRun ==
    \A r \in ProgressRuns : throttle.last[r].edit = throttle.last[r].own

\* ------------------------------------------------------------------------
\* The commands that only report (specification SpecInfo)
\* ------------------------------------------------------------------------

InfoHandlers ==
    {"start_command", "help_command", "list_channels_command",
     "test_auth_command", "test_api_command", "remove_channel_command"}

\* C38: /start, /help, /list, /testauth, /testapi and /rmchannel change no
\* entry of user_states and no row of channels.
C38_InfoCommandsReadOnly ==
    [][returned'.handler \in InfoHandlers
         => /\ user_states' = user_states
            /\ channels' = channels]_vars

\* /rmchannel has shown its keyboard to a user who is in a flow and owns a
\* channel.
C38_WitnessKeyboardDuringFlow ==
    /\ returned.handler = "remove_channel_command"
    /\ returned.outcome = "keyboard"
    /\ returned.user \in DOMAIN user_states
    /\ WhereUser(channels, returned.user) # {}

\* ------------------------------------------------------------------------
\* The Cancel button of the remove keyboard (specification Spec)
\* ------------------------------------------------------------------------

\* C39: the callback cancel_remove leaves the user's wizard or upload-flow
\* state present and unchanged.
C39_CancelRemoveKeepsState ==
    [][(/\ returned'.handler = "handle_callback_query"
        /\ returned'.data = "cancel_remove")
         => user_states' = user_states]_vars

\* ------------------------------------------------------------------------
\* The health endpoint (specification SpecHealth)
\* ------------------------------------------------------------------------

\* C40: a GET on /health is answered 200 and healthy exactly when the
\* connection and the query succeeded and 503 and unhealthy when either
\* failed; a GET on any other path is answered 200 and running and the
\* database is not touched.
C40_HealthAnswers ==
    \A i \in 1..Len(served) :
       LET a == served[i]
       IN  IF a.path = "/health"
           THEN /\ a.db \in DbChecks
                /\ (a.code = 200 /\ a.status = "healthy") <=> a.db = "ok"
                /\ (a.code = 503 /\ a.status = "unhealthy") <=> a.db # "ok"
           ELSE /\ a.db = "untouched"
                /\ a.code = 200
                /\ a.status = "running"

\* The three kinds of answer have been given: healthy, unhealthy, and
\* running for a path that only begins like /health.
C40_WitnessAllAnswers ==
    /\ \E i \in 1..Len(served) : served[i].status = "healthy"
    /\ \E i \in 1..Len(served) :
         served[i].status = "unhealthy" /\ served[i].db = "query_raises"
    /\ \E i \in 1..Len(served) :
         served[i].path = "/health/" /\ served[i].status = "running"


====
